---------------------------- MODULE Spec2Model ----------------------------
(***************************************************************************)
(* A model of the weather application's data-fetch core:                   *)
(*   - LRUCache / CacheManager        (services/cache)                     *)
(*   - CircuitBreaker, retryWithBackoff, withTimeout, WeatherApiService    *)
(*                                     (services/weatherApi.ts)            *)
(*   - useWeatherData.fetchWeather     (hooks/useWeatherData)              *)
(*                                                                         *)
(* Four specifications share one set of variables:                         *)
(*   StoreSpec    the LRU cache driven by arbitrary calls                  *)
(*   BreakerSpec  the circuit breaker under concurrent callers             *)
(*   RetrySpec    retryWithBackoff around an arbitrary fallible operation  *)
(*   Spec         the hook and the service composed, concurrent requests   *)
(* Time is a discrete clock `now`; durations are counted in its ticks.     *)
(***************************************************************************)
EXTENDS Integers, Sequences, FiniteSets, TLC

VARIABLES
  now,            \* Date.now(), in ticks
  \* ---- LRUCache (services/cache) ----
  maxSize,        \* LRUCache.maxSize (constructor parameter)
  cache,          \* LRUCache.cache: a JS Map, as the sequence of its [k, v] pairs
  accessOrder,    \* LRUCache.accessOrder: a JS Map key -> rank
  accessCounter,  \* LRUCache.accessCounter
  \* ---- observation of the last Store call (history variables) ----
  lastOp,         \* the last call: [op, key, val, ttl, at, ret, found, removed]
  recency,        \* keys held, ordered by their last touch (oldest first)
  \* ---- CircuitBreaker (services/weatherApi.ts) ----
  failureCount,   \* CircuitBreaker.failureCount
  lastFailureTime,\* CircuitBreaker.lastFailureTime
  state,          \* CircuitBreaker.state
  \* ---- the callers of CircuitBreaker.call, and what they observed ----
  pc,             \* per caller: "idle", or "inflight" while `await fn()` is pending
  entered,        \* per caller: the state the breaker was in when call() let it in
  bLast,          \* the last breaker event: [ev, c, from]
  consecFail,     \* failed calls since the last successful one (history)
  lastFailAt,     \* time of the last failed call (history)
  \* ---- retryWithBackoff (services/weatherApi.ts), per call ----
  rt,             \* [st, attempt, maxRetries, result, delay]: the loop's position
  calls,          \* invocations of fn so far (history)
  fails,          \* rejections of fn so far (history)
  lastErr,        \* the error of the latest rejection of fn (history)
  \* ---- useWeatherData (hooks/useWeatherData): state and refs ----
  data,           \* state.data ("null" or the weather data)
  loading,        \* state.loading
  error,          \* state.error (NoError or an error)
  requestCount,   \* state.metrics.requestCount
  tracker,        \* performanceTrackerRef: NoTracker or the start time
  responseTimes,  \* responseTimesRef
  \* ---- CacheManager (services/cache) ----
  hitCount,       \* CacheManager.hitCount
  missCount,      \* CacheManager.missCount
  cleanupInterval,\* CacheManager.cleanupInterval: "armed", or "cleared" by clearInterval
  \* ---- WeatherApiService (services/weatherApi.ts) ----
  abortController,\* this.abortController: 0 (null) or the call that created it
  aborted,        \* the controllers whose abort() was called
  \* ---- the calls of the hook's fetchWeather ----
  hk,             \* per call: [st, city, outcome]
  ft,             \* per call: the raw fetch of the current attempt, [st, ctl]
  latest,         \* the call issued last with a valid city name (history)
  lastWrite,      \* the valid call that last wrote data or error, and `latest` then
  startedAt,      \* per call: the time its fetchWeather went to the network (history)
  \* ---- withTimeout (services/weatherApi.ts), per call ----
  wt,             \* [st, result, timer, deadline, op, opResult]: the race
  \* ---- useDebounce (hooks/useDebounce.ts) ----
  db              \* the hook's options, state, refs and live timers

storeVars == <<maxSize, cache, accessOrder, accessCounter, lastOp, recency>>
breakerVars == <<failureCount, lastFailureTime, state>>
callerVars == <<pc, entered, bLast, consecFail, lastFailAt>>
retryVars == <<rt, calls, fails, lastErr>>
hookVars == <<data, loading, error, requestCount, tracker, responseTimes>>
managerVars == <<hitCount, missCount, cleanupInterval>>
serviceVars == <<abortController, aborted>>
requestVars == <<hk, ft, latest, lastWrite, startedAt>>
orchVars == <<hookVars, managerVars, serviceVars, requestVars>>
timeoutVars == <<wt>>
debounceVars == <<db>>
\* what each component's steps leave alone
notStore == <<breakerVars, callerVars, retryVars, orchVars, timeoutVars, debounceVars>>
notBreaker == <<storeVars, retryVars, orchVars, timeoutVars, debounceVars>>
notRetry == <<storeVars, breakerVars, callerVars, orchVars, timeoutVars,
             debounceVars>>
notTimeout == <<storeVars, breakerVars, callerVars, retryVars, orchVars, debounceVars>>
notDebounce == <<storeVars, breakerVars, callerVars, retryVars, orchVars, timeoutVars>>

-----------------------------------------------------------------------------
(* Bounds of the model *)

\* the clock runs from 0 to MaxTime
MaxTime == 2
\* the logical clock accessCounter is followed up to MaxAccess
MaxAccess == 4
\* LRUCache.defaultTTL, in ticks
DefaultTTL == 1

\* the lookups through the CacheManager are followed up to MaxLookups
MaxLookups == 4

\* concurrent callers of CircuitBreaker.call
NCallers == 2
\* the breaker's clock runs from 0 to MaxBreakerTime
MaxBreakerTime == 4
\* failureCount is followed up to FailureThreshold + MaxExtraFailures
MaxExtraFailures == 1
\* CircuitBreaker.failureThreshold
FailureThreshold == 5
\* CircuitBreaker.recoveryTimeout, in ticks (one tick is the 60000 ms)
RecoveryTimeout == 1

\* retryWithBackoff: the default of maxRetries
MaxRetries == 3
\* retryWithBackoff: the default of baseDelay, in ms
BaseDelay == 1000

\* validateCityName: the longest name accepted
MaxCityLength == 100
\* useWeatherData: MAX_CACHE_SIZE
MAX_CACHE_SIZE == 50
\* endPerformanceTracking: the response times kept
LatencyWindow == 100

Callers == 1..NCallers
\* a name one character longer than validateCityName accepts
LongCity == [i \in 1..(MaxCityLength + 1) |-> "p"]
\* what the user types into the search box
CityInputs == {<<"P">>, <<" ", "p">>, <<"L">>, <<" ">>, <<"#">>, LongCity}
\* what a raw fetch attempt can reject with
FetchErrors == {"AbortError", "ApiError404", "ApiError500"}
\* samples of Math.random() * 1000
Jitters == {0, 999}
\* a string is the sequence of its characters; the Store's keys are strings
Keys == {<<"a">>, <<"b">>, <<"c">>}
NoKey == <<>>
\* the capacities the Store is built with (fewer than the keys, so that it fills)
Capacities == {0, 1, 2}
CacheValues == {"v1", "v2"}
Undefined == "undefined"
\* the optional ttl argument of set: <<>> is an omitted argument
TTLArgs == {<<>>, <<-1>>, <<0>>}

-----------------------------------------------------------------------------
(* A JS Map: pairs in insertion order; set on a present key keeps its place *)

MapHas(m, k) == \E i \in 1..Len(m) : m[i].k = k

MapKeys(m) == {m[i].k : i \in 1..Len(m)}

MapGet(m, k) == m[CHOOSE i \in 1..Len(m) : m[i].k = k].v

MapSet(m, k, v) ==
  IF MapHas(m, k)
    THEN [i \in 1..Len(m) |-> IF m[i].k = k THEN [k |-> k, v |-> v] ELSE m[i]]
    ELSE Append(m, [k |-> k, v |-> v])

MapDelete(m, k) == SelectSeq(m, LAMBDA p : p.k # k)

-----------------------------------------------------------------------------
(* LRUCache: each method is an operator from the Store s (a record of the   *)
(* fields cache, accessOrder, accessCounter, maxSize) and the current time  *)
(* t to the Store after the call (field s) and the returned value (ret).    *)

Store == [cache |-> cache, accessOrder |-> accessOrder,
          accessCounter |-> accessCounter, maxSize |-> maxSize]

\* delete that leaves the key's rank in accessOrder
LRUCache_delete_leak(s, key) ==
  [s |-> [s EXCEPT !.cache = MapDelete(s.cache, key)],
   ret |-> MapHas(s.cache, key)]

LRUCache_delete(s, key) ==
  [s |-> [s EXCEPT !.cache = MapDelete(s.cache, key),
                   !.accessOrder = MapDelete(s.accessOrder, key)],
   ret |-> MapHas(s.cache, key)]

\* get that returns without refreshing the key's rank
LRUCache_get_noTouch(s, key, t) ==
  IF ~MapHas(s.cache, key)
    THEN [s |-> s, ret |-> Undefined]
  ELSE IF t > MapGet(s.cache, key).expiresAt
    THEN [s |-> LRUCache_delete(s, key).s, ret |-> Undefined]
  ELSE [s |-> s, ret |-> MapGet(s.cache, key).data]

\* get that forgets the expiry check
LRUCache_get_noExpiry(s, key, t) ==
  IF ~MapHas(s.cache, key)
    THEN [s |-> s, ret |-> Undefined]
  ELSE [s |-> [s EXCEPT !.accessCounter = s.accessCounter + 1,
                        !.accessOrder = MapSet(s.accessOrder, key, s.accessCounter + 1)],
        ret |-> MapGet(s.cache, key).data]

LRUCache_get(s, key, t) ==
  IF ~MapHas(s.cache, key)
    THEN [s |-> s, ret |-> Undefined]
  ELSE IF t > MapGet(s.cache, key).expiresAt
    THEN [s |-> LRUCache_delete(s, key).s, ret |-> Undefined]
  ELSE [s |-> [s EXCEPT !.accessCounter = s.accessCounter + 1,
                        !.accessOrder = MapSet(s.accessOrder, key, s.accessCounter + 1)],
        ret |-> MapGet(s.cache, key).data]

\* the loop of evictLRU: the first key, in the Map's order, of strictly lowest rank
LruKey(ao) ==
  LET i == CHOOSE i \in 1..Len(ao) :
             /\ \A j \in 1..Len(ao) : ao[i].v <= ao[j].v
             /\ \A j \in 1..(i - 1) : ao[j].v > ao[i].v
  IN ao[i].k

LRUCache_evictLRU(s) ==
  IF Len(s.cache) = 0 THEN s
  ELSE IF Len(s.accessOrder) = 0 THEN s
  ELSE LRUCache_delete(s, LruKey(s.accessOrder)).s

\* set that leaves the entry of a key it already holds as it is
LRUCache_set_keepOld(s, key, value, ttl, t) ==
  LET ttlUsed == IF ttl = <<>> THEN DefaultTTL
                 ELSE IF ttl[1] = 0 THEN DefaultTTL ELSE ttl[1]
      entry == [data |-> value, timestamp |-> t, expiresAt |-> t + ttlUsed]
      touch(x) == [x EXCEPT !.cache = IF MapHas(x.cache, key) THEN x.cache
                                      ELSE MapSet(x.cache, key, entry),
                            !.accessCounter = x.accessCounter + 1,
                            !.accessOrder = MapSet(x.accessOrder, key, x.accessCounter + 1)]
  IN IF MapHas(s.cache, key)
       THEN [s |-> touch(s), ret |-> Undefined]
     ELSE IF Len(s.cache) >= s.maxSize
       THEN [s |-> touch(LRUCache_evictLRU(s)), ret |-> Undefined]
     ELSE [s |-> touch(s), ret |-> Undefined]

\* set whose capacity test is off by one (> for >=)
LRUCache_set_lateEvict(s, key, value, ttl, t) ==
  LET ttlUsed == IF ttl = <<>> THEN DefaultTTL
                 ELSE IF ttl[1] = 0 THEN DefaultTTL ELSE ttl[1]
      entry == [data |-> value, timestamp |-> t, expiresAt |-> t + ttlUsed]
      touch(x) == [x EXCEPT !.cache = MapSet(x.cache, key, entry),
                            !.accessCounter = x.accessCounter + 1,
                            !.accessOrder = MapSet(x.accessOrder, key, x.accessCounter + 1)]
  IN IF MapHas(s.cache, key)
       THEN [s |-> touch(s), ret |-> Undefined]
     ELSE IF Len(s.cache) > s.maxSize
       THEN [s |-> touch(LRUCache_evictLRU(s)), ret |-> Undefined]
     ELSE [s |-> touch(s), ret |-> Undefined]

LRUCache_set(s, key, value, ttl, t) ==
  LET ttlUsed == IF ttl = <<>> THEN DefaultTTL
                 ELSE IF ttl[1] = 0 THEN DefaultTTL ELSE ttl[1]
      entry == [data |-> value, timestamp |-> t, expiresAt |-> t + ttlUsed]
      touch(x) == [x EXCEPT !.cache = MapSet(x.cache, key, entry),
                            !.accessCounter = x.accessCounter + 1,
                            !.accessOrder = MapSet(x.accessOrder, key, x.accessCounter + 1)]
  IN IF MapHas(s.cache, key)
       THEN [s |-> touch(s), ret |-> Undefined]
     ELSE IF Len(s.cache) >= s.maxSize
       THEN [s |-> touch(LRUCache_evictLRU(s)), ret |-> Undefined]
     ELSE [s |-> touch(s), ret |-> Undefined]

\* has that refreshes the key's rank, as get does
LRUCache_has_touch(s, key, t) ==
  IF ~MapHas(s.cache, key)
    THEN [s |-> s, ret |-> FALSE]
  ELSE IF t > MapGet(s.cache, key).expiresAt
    THEN [s |-> LRUCache_delete(s, key).s, ret |-> FALSE]
  ELSE [s |-> [s EXCEPT !.accessCounter = s.accessCounter + 1,
                        !.accessOrder = MapSet(s.accessOrder, key, s.accessCounter + 1)],
        ret |-> TRUE]

LRUCache_has(s, key, t) ==
  IF ~MapHas(s.cache, key)
    THEN [s |-> s, ret |-> FALSE]
  ELSE IF t > MapGet(s.cache, key).expiresAt
    THEN [s |-> LRUCache_delete(s, key).s, ret |-> FALSE]
  ELSE [s |-> s, ret |-> TRUE]

LRUCache_clear(s) ==
  [s |-> [s EXCEPT !.cache = <<>>, !.accessOrder = <<>>, !.accessCounter = 0],
   ret |-> Undefined]

ExpiredKeys(s, t) == {k \in MapKeys(s.cache) : t > MapGet(s.cache, k).expiresAt}

\* cleanup that takes an entry in its last valid instant for expired
LRUCache_cleanup_strict(s, t) ==
  [s |-> [s EXCEPT !.cache = SelectSeq(s.cache, LAMBDA p : ~(t >= p.v.expiresAt)),
                   !.accessOrder = SelectSeq(s.accessOrder,
                                     LAMBDA p : t < MapGet(s.cache, p.k).expiresAt)],
   ret |-> Cardinality({k \in MapKeys(s.cache) : t >= MapGet(s.cache, k).expiresAt})]

LRUCache_cleanup(s, t) ==
  [s |-> [s EXCEPT !.cache = SelectSeq(s.cache, LAMBDA p : ~(t > p.v.expiresAt)),
                   !.accessOrder = SelectSeq(s.accessOrder,
                                     LAMBDA p : p.k \notin ExpiredKeys(s, t))],
   ret |-> Cardinality(ExpiredKeys(s, t))]

-----------------------------------------------------------------------------
(* Statistics. A rate is the fraction num / den in lowest terms (the hit     *)
(* counts of the model are small enough for distinct fractions to be         *)
(* distinct doubles).                                                        *)

RECURSIVE GCD(_, _)
GCD(a, b) == IF b = 0 THEN a ELSE GCD(b, a % b)

\* n / d
Rate(n, d) == [num |-> n \div GCD(n, d), den |-> d \div GCD(n, d)]

ZeroRate == [num |-> 0, den |-> 1]

\* null, for a timestamp
NullStamp == -1

\* the entries getStats counts: those not expired at time t
ValidEntries(s, t) == SelectSeq(s.cache, LAMBDA p : t <= p.v.expiresAt)

\* LRUCache.calculateHitRate: 0.85 for a Store that holds anything
LRUCache_calculateHitRate(s) == IF Len(s.cache) > 0 THEN Rate(85, 100) ELSE ZeroRate

LRUCache_getStats(s, t) ==
  LET valid == ValidEntries(s, t)
      stamps == {valid[i].v.timestamp : i \in 1..Len(valid)}
  IN [size |-> Len(valid),
      maxSize |-> s.maxSize,
      hitRate |-> LRUCache_calculateHitRate(s),
      oldestEntry |-> IF stamps = {} THEN NullStamp
                      ELSE CHOOSE x \in stamps : \A y \in stamps : x <= y,
      newestEntry |-> IF stamps = {} THEN NullStamp
                      ELSE CHOOSE x \in stamps : \A y \in stamps : x >= y]

(* CacheManager: operators on the record m of its LRUCache s and counters   *)

Manager == [s |-> Store, hitCount |-> hitCount, missCount |-> missCount,
            cleanupInterval |-> cleanupInterval]

CacheManager_get(m, key, t) ==
  LET r == LRUCache_get(m.s, key, t) IN
  [m |-> [m EXCEPT !.s = r.s,
                   !.hitCount = IF r.ret # Undefined THEN m.hitCount + 1 ELSE m.hitCount,
                   !.missCount = IF r.ret # Undefined THEN m.missCount
                                 ELSE m.missCount + 1],
   ret |-> r.ret]

CacheManager_set(m, key, value, ttl, t) ==
  [m |-> [m EXCEPT !.s = LRUCache_set(m.s, key, value, ttl, t).s], ret |-> Undefined]

\* has that counts a lookup, as get does
CacheManager_has_counting(m, key, t) ==
  LET r == LRUCache_has(m.s, key, t) IN
  [m |-> [m EXCEPT !.s = r.s,
                   !.hitCount = IF r.ret THEN m.hitCount + 1 ELSE m.hitCount,
                   !.missCount = IF r.ret THEN m.missCount ELSE m.missCount + 1],
   ret |-> r.ret]

CacheManager_has(m, key, t) ==
  LET r == LRUCache_has(m.s, key, t) IN
  [m |-> [m EXCEPT !.s = r.s], ret |-> r.ret]

CacheManager_delete(m, key) ==
  LET r == LRUCache_delete(m.s, key) IN
  [m |-> [m EXCEPT !.s = r.s], ret |-> r.ret]

\* the callback of the constructor's setInterval: this.cache.cleanup()
CacheManager_sweep(m, t) ==
  [m |-> [m EXCEPT !.s = LRUCache_cleanup(m.s, t).s], ret |-> Undefined]

\* destroy that empties the Store and leaves the interval running
CacheManager_destroy_leak(m) ==
  [m |-> [m EXCEPT !.s = LRUCache_clear(m.s).s], ret |-> Undefined]

CacheManager_destroy(m) ==
  [m |-> [m EXCEPT !.cleanupInterval = "cleared", !.s = LRUCache_clear(m.s).s],
   ret |-> Undefined]

CacheManager_clear(m) ==
  [m |-> [m EXCEPT !.s = LRUCache_clear(m.s).s, !.hitCount = 0, !.missCount = 0],
   ret |-> Undefined]

CacheManager_getHitRate(m) ==
  IF m.hitCount + m.missCount > 0
    THEN Rate(m.hitCount, m.hitCount + m.missCount)
    ELSE ZeroRate

\* getStats that reports the rate of the LRUCache's own statistics
CacheManager_getStats_placeholder(m, t) ==
  LET st == LRUCache_getStats(m.s, t) IN
  [size |-> st.size, maxSize |-> st.maxSize, oldestEntry |-> st.oldestEntry,
   newestEntry |-> st.newestEntry,
   hitCount |-> m.hitCount, missCount |-> m.missCount,
   hitRate |-> st.hitRate]

\* getStats: the LRUCache's statistics spread first, then the manager's
\* counts and rate, which replace the hitRate of the spread
CacheManager_getStats(m, t) ==
  LET st == LRUCache_getStats(m.s, t) IN
  [size |-> st.size, maxSize |-> st.maxSize, oldestEntry |-> st.oldestEntry,
   newestEntry |-> st.newestEntry,
   hitCount |-> m.hitCount, missCount |-> m.missCount,
   hitRate |-> CacheManager_getHitRate(m)]

-----------------------------------------------------------------------------
(* CircuitBreaker: operators on the record b of its fields                  *)

Breaker == [failureCount |-> failureCount, lastFailureTime |-> lastFailureTime,
            state |-> state]

\* the head of call() that counts a rejected call as a failure
CircuitBreaker_gate_counting(b, t) ==
  IF b.state = "OPEN"
    THEN IF t - b.lastFailureTime > RecoveryTimeout
           THEN [b |-> [b EXCEPT !.state = "HALF_OPEN"], pass |-> TRUE]
           ELSE [b |-> [b EXCEPT !.failureCount = b.failureCount + 1,
                                 !.lastFailureTime = t],
                 pass |-> FALSE]
    ELSE [b |-> b, pass |-> TRUE]

\* the test of the recovery window with >= for >
CircuitBreaker_gate_early(b, t) ==
  IF b.state = "OPEN"
    THEN IF t - b.lastFailureTime >= RecoveryTimeout
           THEN [b |-> [b EXCEPT !.state = "HALF_OPEN"], pass |-> TRUE]
           ELSE [b |-> b, pass |-> FALSE]
    ELSE [b |-> b, pass |-> TRUE]

\* the head of call(): the breaker after the test of its state, and whether
\* the call goes on to fn() (pass) or throws "Circuit breaker is OPEN"
CircuitBreaker_gate(b, t) ==
  IF b.state = "OPEN"
    THEN IF t - b.lastFailureTime > RecoveryTimeout
           THEN [b |-> [b EXCEPT !.state = "HALF_OPEN"], pass |-> TRUE]
           ELSE [b |-> b, pass |-> FALSE]
    ELSE [b |-> b, pass |-> TRUE]

\* onSuccess that resets the count but leaves the state as it is
CircuitBreaker_onSuccess_keepState(b) == [b EXCEPT !.failureCount = 0]

\* onSuccess that closes the breaker but keeps the count
CircuitBreaker_onSuccess_keepCount(b) == [b EXCEPT !.state = "CLOSED"]

CircuitBreaker_onSuccess(b) == [b EXCEPT !.failureCount = 0, !.state = "CLOSED"]

\* onFailure whose threshold test is off by one (> for >=)
CircuitBreaker_onFailure_late(b, t) ==
  [b EXCEPT !.failureCount = b.failureCount + 1,
            !.lastFailureTime = t,
            !.state = IF b.failureCount + 1 > FailureThreshold THEN "OPEN" ELSE b.state]

CircuitBreaker_onFailure(b, t) ==
  [b EXCEPT !.failureCount = b.failureCount + 1,
            !.lastFailureTime = t,
            !.state = IF b.failureCount + 1 >= FailureThreshold THEN "OPEN" ELSE b.state]

SetBreaker(b) ==
  /\ failureCount' = b.failureCount
  /\ lastFailureTime' = b.lastFailureTime
  /\ state' = b.state

-----------------------------------------------------------------------------
(* retryWithBackoff: operators on the record rs of one call's loop.         *)
(* An outcome of fn is [kind, attempt, data]: kind "ok" or an error's kind, *)
(* attempt the invocation that produced it (the identity of the object).    *)

NoResult == [kind |-> "none", attempt |-> -1, data |-> ""]

\* new Error("Max retries exceeded")
MaxRetriesExceeded == [kind |-> "Error: Max retries exceeded", attempt |-> -1, data |-> ""]

NoRetry == [st |-> "idle", attempt |-> 0, maxRetries |-> 0, result |-> NoResult, delay |-> 0]

\* the head of the for loop: fn is invoked while attempt <= maxRetries
retryWithBackoff_loop(rs) ==
  IF rs.attempt <= rs.maxRetries
    THEN [rs EXCEPT !.st = "calling"]
    ELSE [rs EXCEPT !.st = "thrown", !.result = MaxRetriesExceeded]

retryWithBackoff_start(maxRetries) ==
  retryWithBackoff_loop([NoRetry EXCEPT !.maxRetries = maxRetries])

\* return await fn()
retryWithBackoff_onResolve(rs, value) ==
  [rs EXCEPT !.st = "returned", !.result = value]

\* the catch block whose wait grows linearly with the attempt
retryWithBackoff_onReject_linear(rs, err, jitter) ==
  IF rs.attempt = rs.maxRetries
    THEN [rs EXCEPT !.st = "thrown", !.result = err]
    ELSE [rs EXCEPT !.st = "waiting",
                    !.delay = BaseDelay * (rs.attempt + 1) + jitter]

\* the catch block that gives up one attempt early
retryWithBackoff_onReject_early(rs, err, jitter) ==
  IF rs.attempt + 1 >= rs.maxRetries
    THEN [rs EXCEPT !.st = "thrown", !.result = err]
    ELSE [rs EXCEPT !.st = "waiting",
                    !.delay = BaseDelay * (2 ^ rs.attempt) + jitter]

\* the catch block that wraps the last error in a generic one
retryWithBackoff_onReject_generic(rs, err, jitter) ==
  IF rs.attempt = rs.maxRetries
    THEN [rs EXCEPT !.st = "thrown", !.result = MaxRetriesExceeded]
    ELSE [rs EXCEPT !.st = "waiting",
                    !.delay = BaseDelay * (2 ^ rs.attempt) + jitter]

\* the catch block: rethrow on the last attempt, else start the backoff wait
retryWithBackoff_onReject(rs, err, jitter) ==
  IF rs.attempt = rs.maxRetries
    THEN [rs EXCEPT !.st = "thrown", !.result = err]
    ELSE [rs EXCEPT !.st = "waiting",
                    !.delay = BaseDelay * (2 ^ rs.attempt) + jitter]

\* the wait is over: attempt++ and the loop's test
retryWithBackoff_afterWait(rs) ==
  retryWithBackoff_loop([rs EXCEPT !.attempt = rs.attempt + 1])

\* the loop of call c moves to rs; an invocation of fn is counted
SetRetry(c, rs) ==
  /\ rt' = [rt EXCEPT ![c] = rs]
  /\ calls' = [calls EXCEPT ![c] = IF rs.st = "calling" THEN calls[c] + 1 ELSE calls[c]]

-----------------------------------------------------------------------------
(* withTimeout: operators on the record w of one call: the returned promise *)
(* (st, result), the timer (timer, deadline) and the promise raced against  *)
(* it (op, opResult).                                                       *)

\* new NetworkError("Request timeout", undefined, "TIMEOUT")
RequestTimeout == "NetworkError: Request timeout"

TimeoutError == [kind |-> RequestTimeout, attempt |-> -1, data |-> "TIMEOUT"]

NoTimeout == [st |-> "idle", result |-> NoResult, timer |-> "none", deadline |-> 0,
              op |-> "none", opResult |-> NoResult]

\* resolve / reject of a Promise: the first call settles it, later ones do nothing
PromiseSettle(w, o) ==
  IF w.st = "pending" THEN [w EXCEPT !.st = "settled", !.result = o] ELSE w

\* the executor: the timer is armed and the callbacks are attached to `promise`
withTimeout_start(timeoutMs, t) ==
  [NoTimeout EXCEPT !.st = "pending", !.timer = "armed", !.deadline = t + timeoutMs,
                    !.op = "pending"]

\* the timer's callback: reject(new NetworkError("Request timeout", ...))
withTimeout_onTimer(w) == [PromiseSettle(w, TimeoutError) EXCEPT !.timer = "fired"]

\* the callbacks without the finally: the timer is left armed
withTimeout_onSettle_leak(w, o) ==
  [PromiseSettle(w, o) EXCEPT !.op = "settled", !.opResult = o]

\* `promise` settled with o: .then(resolve).catch(reject), then the finally's
\* clearTimeout, which does nothing to a timer that has fired
withTimeout_onSettle(w, o) ==
  [PromiseSettle(w, o) EXCEPT !.op = "settled", !.opResult = o,
                              !.timer = IF w.timer = "armed" THEN "cleared" ELSE w.timer]

-----------------------------------------------------------------------------
(* Strings, the hook's state and the service's helpers                      *)

Whitespace == {" "}

\* String.prototype.trim
RECURSIVE TrimLeft(_)
TrimLeft(str) ==
  IF str # <<>> /\ Head(str) \in Whitespace THEN TrimLeft(Tail(str)) ELSE str

RECURSIVE TrimRight(_)
TrimRight(str) ==
  IF str # <<>> /\ str[Len(str)] \in Whitespace
    THEN TrimRight(SubSeq(str, 1, Len(str) - 1)) ELSE str

Trim(str) == TrimRight(TrimLeft(str))

\* String.prototype.toLowerCase, on the letters of the model
LowerChar(ch) ==
  CASE ch = "P" -> "p"
    [] ch = "L" -> "l"
    [] OTHER -> ch

ToLowerCase(str) == [i \in 1..Len(str) |-> LowerChar(str[i])]

\* the characters /^[a-zA-Z\s\-',.]+$/ accepts
CityChars == {"P", "p", "L", "l", " ", "-", "'", ",", "."}

\* validateCityName that lets every name through
validateCityName_lax(city) == "ok"

\* validateCityName: the kind of ValidationError thrown, or "ok"
validateCityName(city) ==
  IF city = <<>> THEN "ValidationError: City name is required"
  ELSE IF Len(city) > MaxCityLength THEN "ValidationError: City name is too long"
  ELSE IF \E i \in 1..Len(city) : city[i] \notin CityChars
    THEN "ValidationError: Invalid city name format"
  ELSE "ok"

\* the remote API: the weather data served for the query q
WeatherOf(q) == IF ToLowerCase(Trim(q)) = <<"p">> THEN "weather of p" ELSE "weather of l"

Null == "null"
NoError == [kind |-> "null", attempt |-> -1, data |-> ""]
NoTracker == -1
NoFetch == [st |-> "none", ctl |-> 0]

ErrorOf(kind) == [kind |-> kind, attempt |-> -1, data |-> ""]

Hook == [data |-> data, loading |-> loading, error |-> error,
         requestCount |-> requestCount, tracker |-> tracker,
         responseTimes |-> responseTimes]

SetHook(h) ==
  /\ data' = h.data
  /\ loading' = h.loading
  /\ error' = h.error
  /\ requestCount' = h.requestCount
  /\ tracker' = h.tracker
  /\ responseTimes' = h.responseTimes

\* Array.prototype.slice(-n)
SliceLast(seq, n) ==
  IF Len(seq) > n THEN SubSeq(seq, Len(seq) - n + 1, Len(seq)) ELSE seq

startPerformanceTracking(h, t) == [h EXCEPT !.tracker = t]

\* times.reduce((sum, time) => sum + time, 0): the sum of the samples, added
\* up by halves
RECURSIVE SumOf(_)
SumOf(times) ==
  IF Len(times) = 0 THEN 0
  ELSE IF Len(times) = 1 THEN times[1]
  ELSE LET half == Len(times) \div 2 IN
       SumOf(SubSeq(times, 1, half)) + SumOf(SubSeq(times, half + 1, Len(times)))

\* getAverageResponseTime: the mean of the buffer, 0 for an empty one
getAverageResponseTime(times) ==
  IF Len(times) > 0 THEN Rate(SumOf(times), Len(times)) ELSE ZeroRate

\* the tracker that keeps the first 100 samples: slice(0, 100)
endPerformanceTracking_keepOldest(h, t) ==
  IF h.tracker # NoTracker
    THEN [h EXCEPT !.responseTimes =
                      LET all == Append(h.responseTimes, t - h.tracker) IN
                      IF Len(all) > LatencyWindow THEN SubSeq(all, 1, LatencyWindow)
                      ELSE all,
                   !.tracker = NoTracker]
    ELSE h

endPerformanceTracking(h, t) ==
  IF h.tracker # NoTracker
    THEN [h EXCEPT !.responseTimes = SliceLast(Append(h.responseTimes, t - h.tracker),
                                               LatencyWindow),
                   !.tracker = NoTracker]
    ELSE h

\* fetchWeather, cache hit: lines 151-161
HookCacheHit(h, cached, t) ==
  [endPerformanceTracking(h, t) EXCEPT !.data = cached, !.loading = FALSE]

\* the success path that forgets to count the request
HookSuccess_noCount(h, weatherData, t) ==
  [endPerformanceTracking(h, t) EXCEPT !.data = weatherData, !.loading = FALSE]

\* fetchWeather, after the await: lines 169-184
HookSuccess(h, weatherData, t) ==
  LET e == endPerformanceTracking(h, t) IN
  [e EXCEPT !.data = weatherData, !.loading = FALSE,
            !.requestCount = e.requestCount + 1]

\* the catch block that also clears the data shown
HookFailure_clearsData(h, err, t) ==
  LET e == endPerformanceTracking(h, t) IN
  IF err.kind = "AbortError" THEN e
  ELSE [e EXCEPT !.loading = FALSE, !.error = err, !.data = Null,
                 !.requestCount = e.requestCount + 1]

\* fetchWeather, the catch block: lines 189-211
HookFailure(h, err, t) ==
  LET e == endPerformanceTracking(h, t) IN
  IF err.kind = "AbortError" THEN e
  ELSE [e EXCEPT !.loading = FALSE, !.error = err,
                 !.requestCount = e.requestCount + 1]

-----------------------------------------------------------------------------
(* useDebounce(value, delay, {leading, trailing = true, maxWait}): operators *)
(* on the record d of its options, state, refs and live timers. Times are    *)
(* in units of 100 ms.                                                       *)

\* useSearchDebounce: delay = 300
SearchDelay == 3
\* useSearchDebounce: maxWait: 1000
SearchMaxWait == 10
\* Date.now() when the hook mounts: far more than maxWait after time 0
DebounceEpoch == 20

\* no timer set by the trailing branch
NoTimer == [live |-> FALSE, value |-> "", due |-> 0]

\* a record d: the options leading and maxWait (0: undefined); value, the
\* input of the last render; debouncedValue; timeout, the timer of
\* timeoutRef; maxTimers, the maxWait timers set and neither fired nor
\* cleared, each with the value its callback closed over, its due time,
\* whether the leading branch set it, and whether maxTimeoutRef holds its id
\* (cur); maxRef, whether maxTimeoutRef.current is set; the other refs; the
\* number of changes of the input so far; and whether cancel was ever called
NoDebounce ==
  [mounted |-> FALSE, leading |-> FALSE, maxWait |-> 0, value |-> "",
   debouncedValue |-> "", timeout |-> NoTimer, maxTimers |-> {}, maxRef |-> FALSE,
   lastCallTime |-> 0, lastInvokeTime |-> 0, leadingRef |-> FALSE, changes |-> 0,
   cancelled |-> FALSE]

\* invokeFunc(newValue)
useDebounce_invokeFunc(d, newValue, t) ==
  [d EXCEPT !.lastInvokeTime = t, !.debouncedValue = newValue]

\* shouldInvokeLeading()
useDebounce_shouldInvokeLeading(d, t) ==
  d.leading /\ (~d.leadingRef \/ t - d.lastCallTime >= SearchDelay)

\* shouldInvokeTrailing()
useDebounce_shouldInvokeTrailing(d, t) == t - d.lastCallTime >= SearchDelay

\* maxTimeoutRef.current = setTimeout(..., wait): the new timer's id replaces
\* the one in the ref, whose timer stays set
SetMaxTimer(d, value, wait, lead, t) ==
  [d EXCEPT !.maxRef = TRUE,
            !.maxTimers = {[m EXCEPT !.cur = FALSE] : m \in d.maxTimers}
                            \cup {[value |-> value, due |-> t + wait,
                                   lead |-> lead, cur |-> TRUE]}]

\* the main effect, run for the render with the input `value` at time t,
\* after the cleanup of the run before it, which clears the timer of
\* timeoutRef
useDebounce_effect(d, value, t) ==
  LET d1 == [d EXCEPT !.value = value, !.timeout = NoTimer, !.lastCallTime = t] IN
  IF useDebounce_shouldInvokeLeading(d1, t)
    THEN LET d2 == useDebounce_invokeFunc([d1 EXCEPT !.leadingRef = TRUE], value, t) IN
         IF d.maxWait # 0 /\ d.maxWait > SearchDelay
           THEN SetMaxTimer(d2, value, d.maxWait, TRUE, t)
           ELSE d2
    ELSE LET d2 == [d1 EXCEPT !.timeout = [live |-> TRUE, value |-> value,
                                           due |-> t + SearchDelay]]
             remainingMaxWait == d.maxWait - (t - d.lastInvokeTime)
         IN IF d.maxWait # 0 /\ ~d.maxRef /\ remainingMaxWait > 0
              THEN SetMaxTimer(d2, value, remainingMaxWait, FALSE, t)
              ELSE d2

\* useState(value) and the first run of the effect
useDebounce_mount(value, leading, maxWait, t) ==
  useDebounce_effect([NoDebounce EXCEPT !.mounted = TRUE, !.leading = leading,
                                        !.maxWait = maxWait, !.debouncedValue = value],
                     value, t)

\* the callback of the trailing timer
useDebounce_onTimeout(d, t) ==
  LET d1 == IF useDebounce_shouldInvokeTrailing(d, t)
              THEN useDebounce_invokeFunc(d, d.timeout.value, t) ELSE d
  IN [d1 EXCEPT !.leadingRef = FALSE, !.timeout = NoTimer]

\* the callback of the maxWait timer m: it invokes with the value of the
\* render that set it, and leaves maxTimeoutRef.current as it is
useDebounce_onMaxTimeout(d, m, t) ==
  LET d1 == useDebounce_invokeFunc(d, m.value, t) IN
  [d1 EXCEPT !.maxTimers = d.maxTimers \ {m},
             !.leadingRef = IF m.lead THEN d.leadingRef ELSE FALSE]

\* cancel()
useDebounce_cancel(d) ==
  [d EXCEPT !.timeout = NoTimer,
            !.maxTimers = {m \in d.maxTimers : ~m.cur},
            !.maxRef = FALSE,
            !.leadingRef = FALSE,
            !.cancelled = TRUE]

-----------------------------------------------------------------------------
(* StoreSpec: the Store under every sequence of calls and clock ticks *)

\* the recency list after a call: `touched` (a key or NoKey) moves to the
\* end, and keys the Store no longer holds leave the list
Touch(rec, touched, held) ==
  LET moved == IF touched = NoKey THEN rec
               ELSE Append(SelectSeq(rec, LAMBDA k : k # touched), touched)
  IN SelectSeq(moved, LAMBDA k : k \in held)

\* the arguments of a call besides its key: those of set, or none
NoArgs == [val |-> Undefined, ttl |-> <<>>]

\* the Store's fields take the values of r.s, and the call is recorded: its
\* arguments, for a set its time, what it returned, whether its key was held
\* before it, and the keys it removed
ApplyStore(op, key, args, r, touched) ==
  /\ cache' = r.s.cache
  /\ accessOrder' = r.s.accessOrder
  /\ accessCounter' = r.s.accessCounter
  /\ lastOp' = [op |-> op, key |-> key, val |-> args.val, ttl |-> args.ttl,
                at |-> IF op = "set" THEN now ELSE 0, ret |-> r.ret,
                found |-> key # NoKey /\ MapHas(cache, key),
                removed |-> MapKeys(cache) \ MapKeys(r.s.cache)]
  /\ recency' = Touch(recency, touched, MapKeys(r.s.cache))

Apply(op, key, args, r, touched) ==
  /\ ApplyStore(op, key, args, r, touched)
  /\ UNCHANGED <<maxSize, now, notStore>>

\* new LRUCache(maxSize, ttl)
LRUCacheInit ==
  /\ cache = <<>>
  /\ accessOrder = <<>>
  /\ accessCounter = 0
  /\ lastOp = [op |-> "none", key |-> NoKey, val |-> Undefined, ttl |-> <<>>,
               at |-> 0, ret |-> Undefined, found |-> FALSE, removed |-> {}]
  /\ recency = <<>>

\* new CircuitBreaker(), and no call under way
CircuitBreakerInit ==
  /\ failureCount = 0
  /\ lastFailureTime = 0
  /\ state = "CLOSED"
  /\ pc = [c \in Callers |-> "idle"]
  /\ entered = [c \in Callers |-> "none"]
  /\ bLast = [ev |-> "none", c |-> 0, from |-> "CLOSED"]
  /\ consecFail = 0
  /\ lastFailAt = 0

\* no retryWithBackoff under way
RetryIdle ==
  /\ rt = [c \in Callers |-> NoRetry]
  /\ calls = [c \in Callers |-> 0]
  /\ fails = [c \in Callers |-> 0]
  /\ lastErr = [c \in Callers |-> NoResult]

\* the hook as mounted, the service as constructed, and no call issued
HookIdle ==
  /\ data = Null
  /\ loading = FALSE
  /\ error = NoError
  /\ requestCount = 0
  /\ tracker = NoTracker
  /\ responseTimes = <<>>
  /\ hitCount = 0
  /\ missCount = 0
  /\ cleanupInterval = "armed"
  /\ abortController = 0
  /\ aborted = {}
  /\ hk = [c \in Callers |-> [st |-> "new", city |-> <<>>, outcome |-> "none"]]
  /\ ft = [c \in Callers |-> NoFetch]
  /\ latest = 0
  /\ lastWrite = [c |-> 0, latest |-> 0]
  /\ startedAt = [c \in Callers |-> 0]

\* no withTimeout under way
TimeoutIdle == wt = [c \in Callers |-> NoTimeout]

\* no useDebounce mounted
DebounceIdle == db = NoDebounce

StoreInit ==
  /\ now = 0
  /\ CircuitBreakerInit
  /\ RetryIdle
  /\ HookIdle
  /\ TimeoutIdle
  /\ DebounceIdle
  /\ maxSize \in Capacities
  /\ LRUCacheInit

StoreGet ==
  \E key \in Keys :
    LET r == LRUCache_get(Store, key, now) IN
    /\ accessCounter < MaxAccess
    /\ Apply("get", key, NoArgs, r, IF r.ret = Undefined THEN NoKey ELSE key)

StoreSet ==
  \E key \in Keys, value \in CacheValues, ttl \in TTLArgs :
    /\ accessCounter < MaxAccess
    /\ Apply("set", key, [val |-> value, ttl |-> ttl],
             LRUCache_set(Store, key, value, ttl, now), key)

StoreHas ==
  \E key \in Keys :
    Apply("has", key, NoArgs, LRUCache_has(Store, key, now), NoKey)

StoreDelete ==
  \E key \in Keys :
    Apply("delete", key, NoArgs, LRUCache_delete(Store, key), NoKey)

StoreClear ==
  Apply("clear", NoKey, NoArgs, LRUCache_clear(Store), NoKey)

StoreCleanup ==
  Apply("cleanup", NoKey, NoArgs, LRUCache_cleanup(Store, now), NoKey)

StoreTick ==
  /\ now < MaxTime
  /\ now' = now + 1
  /\ UNCHANGED <<storeVars, notStore>>

StoreNext ==
  \/ StoreGet
  \/ StoreSet
  \/ StoreHas
  \/ StoreDelete
  \/ StoreClear
  \/ StoreCleanup
  \/ StoreTick

vars == <<now, storeVars, breakerVars, callerVars, retryVars, orchVars, timeoutVars,
          debounceVars>>

StoreSpec == StoreInit /\ [][StoreNext]_vars

-----------------------------------------------------------------------------
(* ManagerSpec: the CacheManager under every sequence of get, set, clear,    *)
(* getHitRate and getStats calls and clock ticks                            *)

\* the keys looked up and set through the manager
ManagerKeys == {<<"a">>, <<"b">>}

ManagerInit ==
  /\ now = 0
  /\ CircuitBreakerInit
  /\ RetryIdle
  /\ HookIdle
  /\ TimeoutIdle
  /\ DebounceIdle
  /\ maxSize \in Capacities \ {0}
  /\ LRUCacheInit

\* the manager's fields take the values of r.m, and the call is recorded
ManagerApply(op, key, args, r, touched) ==
  /\ ApplyStore(op, key, args, [s |-> r.m.s, ret |-> r.ret], touched)
  /\ hitCount' = r.m.hitCount
  /\ missCount' = r.m.missCount
  /\ cleanupInterval' = r.m.cleanupInterval
  /\ UNCHANGED <<now, maxSize, breakerVars, callerVars, retryVars, hookVars,
                 serviceVars, requestVars, timeoutVars, debounceVars>>

ManagerGet ==
  \E key \in ManagerKeys :
    LET r == CacheManager_get(Manager, key, now) IN
    /\ hitCount + missCount < MaxLookups
    /\ ManagerApply("get", key, NoArgs, r, IF r.ret = Undefined THEN NoKey ELSE key)

ManagerSet ==
  \E key \in ManagerKeys, value \in CacheValues :
    /\ accessCounter < MaxAccess
    /\ ManagerApply("set", key, [val |-> value, ttl |-> <<>>],
                    CacheManager_set(Manager, key, value, <<>>, now), key)

ManagerClear ==
  ManagerApply("clear", NoKey, NoArgs, CacheManager_clear(Manager), NoKey)

ManagerGetHitRate ==
  ManagerApply("getHitRate", NoKey, NoArgs,
               [m |-> Manager, ret |-> CacheManager_getHitRate(Manager)], NoKey)

ManagerGetStats ==
  ManagerApply("getStats", NoKey, NoArgs,
               [m |-> Manager, ret |-> CacheManager_getStats(Manager, now)], NoKey)

ManagerTick ==
  /\ now < MaxTime
  /\ now' = now + 1
  /\ UNCHANGED <<storeVars, notStore>>

ManagerNext ==
  \/ ManagerGet
  \/ ManagerSet
  \/ ManagerClear
  \/ ManagerGetHitRate
  \/ ManagerGetStats
  \/ ManagerTick

ManagerSpec == ManagerInit /\ [][ManagerNext]_vars

-----------------------------------------------------------------------------
(* LifecycleSpec: the hook's CacheManager, new CacheManager(MAX_CACHE_SIZE,  *)
(* CACHE_TTL), from its construction: every sequence of calls of its         *)
(* methods, destroy among them, of runs of the cleanup interval's callback,  *)
(* and of clock ticks                                                        *)

\* the lookups through the manager are followed up to MaxLifecycleLookups
MaxLifecycleLookups == 2

LifecycleInit ==
  /\ now = 0
  /\ CircuitBreakerInit
  /\ RetryIdle
  /\ HookIdle
  /\ TimeoutIdle
  /\ DebounceIdle
  /\ maxSize = MAX_CACHE_SIZE
  /\ LRUCacheInit

LifecycleGet ==
  \E key \in ManagerKeys :
    LET r == CacheManager_get(Manager, key, now) IN
    /\ hitCount + missCount < MaxLifecycleLookups
    /\ ManagerApply("get", key, NoArgs, r, IF r.ret = Undefined THEN NoKey ELSE key)

LifecycleHas ==
  \E key \in ManagerKeys :
    ManagerApply("has", key, NoArgs, CacheManager_has(Manager, key, now), NoKey)

LifecycleDelete ==
  \E key \in ManagerKeys :
    ManagerApply("delete", key, NoArgs, CacheManager_delete(Manager, key), NoKey)

\* the interval timer, while it is not cleared, fires at any time
LifecycleSweep ==
  /\ cleanupInterval = "armed"
  /\ ManagerApply("sweep", NoKey, NoArgs, CacheManager_sweep(Manager, now), NoKey)

LifecycleDestroy ==
  ManagerApply("destroy", NoKey, NoArgs, CacheManager_destroy(Manager), NoKey)

LifecycleNext ==
  \/ LifecycleGet
  \/ ManagerSet
  \/ LifecycleHas
  \/ LifecycleDelete
  \/ ManagerClear
  \/ ManagerGetStats
  \/ LifecycleSweep
  \/ LifecycleDestroy
  \/ ManagerTick

LifecycleSpec == LifecycleInit /\ [][LifecycleNext]_vars

-----------------------------------------------------------------------------
(* BreakerSpec: CircuitBreaker.call made by concurrent callers around an     *)
(* operation fn that succeeds or fails at any later time                    *)

BreakerInit ==
  /\ now = 0
  /\ maxSize = 0
  /\ LRUCacheInit
  /\ CircuitBreakerInit
  /\ RetryIdle
  /\ HookIdle
  /\ TimeoutIdle
  /\ DebounceIdle

\* call() by c, up to `await fn()`: g is the outcome of the test of the state
CallEnter(c, g) ==
  /\ SetBreaker(g.b)
  /\ pc' = [pc EXCEPT ![c] = IF g.pass THEN "inflight" ELSE "idle"]
  /\ entered' = [entered EXCEPT ![c] = IF g.pass THEN state ELSE "none"]
  /\ bLast' = [ev |-> IF g.pass THEN "pass" ELSE "reject", c |-> c, from |-> state]
  /\ UNCHANGED <<consecFail, lastFailAt>>

\* fn() of c's call resolved: onSuccess
CallSucceeds(c) ==
  /\ SetBreaker(CircuitBreaker_onSuccess(Breaker))
  /\ pc' = [pc EXCEPT ![c] = "idle"]
  /\ bLast' = [ev |-> "success", c |-> c, from |-> state]
  /\ consecFail' = 0
  /\ UNCHANGED <<entered, lastFailAt>>

\* fn() of c's call rejected: onFailure, and the error is thrown on
CallFails(c) ==
  /\ SetBreaker(CircuitBreaker_onFailure(Breaker, now))
  /\ pc' = [pc EXCEPT ![c] = "idle"]
  /\ bLast' = [ev |-> "failure", c |-> c, from |-> state]
  /\ consecFail' = consecFail + 1
  /\ lastFailAt' = now
  /\ UNCHANGED entered

BreakerCall(c) ==
  /\ pc[c] = "idle"
  /\ CallEnter(c, CircuitBreaker_gate(Breaker, now))
  /\ UNCHANGED <<now, notBreaker>>

BreakerFnResolves(c) ==
  /\ pc[c] = "inflight"
  /\ CallSucceeds(c)
  /\ UNCHANGED <<now, notBreaker>>

BreakerFnRejects(c) ==
  /\ pc[c] = "inflight"
  /\ failureCount < FailureThreshold + MaxExtraFailures
  /\ CallFails(c)
  /\ UNCHANGED <<now, notBreaker>>

BreakerTick ==
  /\ now < MaxBreakerTime
  /\ now' = now + 1
  /\ UNCHANGED <<breakerVars, callerVars, notBreaker>>

BreakerNext ==
  \/ \E c \in Callers : BreakerCall(c)
  \/ \E c \in Callers : BreakerFnResolves(c)
  \/ \E c \in Callers : BreakerFnRejects(c)
  \/ BreakerTick

BreakerSpec == BreakerInit /\ [][BreakerNext]_vars

-----------------------------------------------------------------------------
(* RetrySpec: one retryWithBackoff(fn, maxRetries) around an fn that         *)
(* resolves or rejects, with any error, at each invocation                  *)

RetryRunners == {1}

RetryInit ==
  /\ now = 0
  /\ maxSize = 0
  /\ LRUCacheInit
  /\ CircuitBreakerInit
  /\ RetryIdle
  /\ HookIdle
  /\ TimeoutIdle
  /\ DebounceIdle

RetryStart(c) ==
  \E m \in 0..MaxRetries :
    /\ rt[c].st = "idle"
    /\ SetRetry(c, retryWithBackoff_start(m))
    /\ UNCHANGED <<now, fails, lastErr, notRetry>>

RetryFnResolves(c) ==
  /\ rt[c].st = "calling"
  /\ SetRetry(c, retryWithBackoff_onResolve(rt[c],
                    [kind |-> "ok", attempt |-> rt[c].attempt, data |-> "value"]))
  /\ UNCHANGED <<now, fails, lastErr, notRetry>>

RetryFnRejects(c) ==
  \E kind \in FetchErrors, jitter \in Jitters :
    LET err == [kind |-> kind, attempt |-> rt[c].attempt, data |-> ""] IN
    /\ rt[c].st = "calling"
    /\ SetRetry(c, retryWithBackoff_onReject(rt[c], err, jitter))
    /\ fails' = [fails EXCEPT ![c] = fails[c] + 1]
    /\ lastErr' = [lastErr EXCEPT ![c] = err]
    /\ UNCHANGED <<now, notRetry>>

RetryWaitEnds(c) ==
  /\ rt[c].st = "waiting"
  /\ SetRetry(c, retryWithBackoff_afterWait(rt[c]))
  /\ UNCHANGED <<now, fails, lastErr, notRetry>>

RetryNext ==
  \/ \E c \in RetryRunners : RetryStart(c)
  \/ \E c \in RetryRunners : RetryFnResolves(c)
  \/ \E c \in RetryRunners : RetryFnRejects(c)
  \/ \E c \in RetryRunners : RetryWaitEnds(c)

RetrySpec == RetryInit /\ [][RetryNext]_vars

-----------------------------------------------------------------------------
(* TimeoutSpec: withTimeout(promise, timeoutMs) by concurrent callers, around *)
(* a promise that settles at any time, or never                             *)

\* the timeoutMs the callers pass, in ticks
TimeoutArgs == {1, 2}

TimeoutInit ==
  /\ now = 0
  /\ maxSize = 0
  /\ LRUCacheInit
  /\ CircuitBreakerInit
  /\ RetryIdle
  /\ HookIdle
  /\ TimeoutIdle
  /\ DebounceIdle

TimeoutStart(c) ==
  \E timeoutMs \in TimeoutArgs :
    /\ wt[c].st = "idle"
    /\ wt' = [wt EXCEPT ![c] = withTimeout_start(timeoutMs, now)]
    /\ UNCHANGED <<now, notTimeout>>

TimeoutOpResolves(c) ==
  /\ wt[c].op = "pending"
  /\ wt' = [wt EXCEPT ![c] = withTimeout_onSettle(wt[c],
                                [kind |-> "ok", attempt |-> c, data |-> "value"])]
  /\ UNCHANGED <<now, notTimeout>>

TimeoutOpRejects(c) ==
  \E kind \in FetchErrors :
    /\ wt[c].op = "pending"
    /\ wt' = [wt EXCEPT ![c] = withTimeout_onSettle(wt[c],
                                  [kind |-> kind, attempt |-> c, data |-> ""])]
    /\ UNCHANGED <<now, notTimeout>>

\* a timer that is armed fires at its deadline or later
TimeoutTimerFires(c) ==
  /\ wt[c].timer = "armed"
  /\ now >= wt[c].deadline
  /\ wt' = [wt EXCEPT ![c] = withTimeout_onTimer(wt[c])]
  /\ UNCHANGED <<now, notTimeout>>

TimeoutTick ==
  /\ now < MaxTime + 1
  /\ now' = now + 1
  /\ UNCHANGED <<notTimeout, timeoutVars>>

TimeoutNext ==
  \/ \E c \in Callers : TimeoutStart(c)
  \/ \E c \in Callers : TimeoutOpResolves(c)
  \/ \E c \in Callers : TimeoutOpRejects(c)
  \/ \E c \in Callers : TimeoutTimerFires(c)
  \/ TimeoutTick

TimeoutSpec == TimeoutInit /\ [][TimeoutNext]_vars

-----------------------------------------------------------------------------
(* Spec: calls of the hook's fetchWeather, each running                     *)
(*   circuitBreaker.call(() => retryWithBackoff(() =>                       *)
(*       withTimeout(fetchWeatherData(), REQUEST_TIMEOUT)))                 *)
(* on a cache miss. The synchronous part of a call is one step; the raw     *)
(* fetch, the timeout and the backoff wait complete in later steps, in any  *)
(* order across calls. The length of a backoff wait is not followed here    *)
(* (the jitter is taken as 0): a wait ends at any later step.               *)

\* breakers left behind by earlier, finished calls
BreakerStarts ==
  {[failureCount |-> 0, lastFailureTime |-> 0, state |-> "CLOSED"],
   [failureCount |-> FailureThreshold - 1, lastFailureTime |-> 0, state |-> "CLOSED"],
   [failureCount |-> FailureThreshold, lastFailureTime |-> 0, state |-> "OPEN"]}

Init ==
  /\ now = 0
  /\ maxSize = MAX_CACHE_SIZE
  /\ LRUCacheInit
  /\ RetryIdle
  /\ HookIdle
  /\ TimeoutIdle
  /\ DebounceIdle
  /\ \E b \in BreakerStarts :
       /\ failureCount = b.failureCount
       /\ lastFailureTime = b.lastFailureTime
       /\ state = b.state
       /\ consecFail = b.failureCount
  /\ lastFailAt = 0
  /\ pc = [c \in Callers |-> "idle"]
  /\ entered = [c \in Callers |-> "none"]
  /\ bLast = [ev |-> "none", c |-> 0, from |-> "CLOSED"]

\* abort() rejects the pending fetches of its signal before any other task runs
AbortPending == \E c \in Callers : ft[c].st = "pending" /\ ft[c].ctl \in aborted

\* the key without the case folding
NormalizedCity_noFold(city) == Trim(city)

\* the key of the Store for a call: city.trim().toLowerCase()
NormalizedCity(city) == ToLowerCase(Trim(city))

\* which way a call of fetchWeather(city) goes in its synchronous part
HookPath(city) ==
  IF Trim(city) = <<>> THEN "invalid"
  ELSE IF LRUCache_get(Store, NormalizedCity(city), now).ret # Undefined THEN "hit"
  ELSE IF validateCityName(Trim(city)) # "ok" THEN "badname"
  ELSE IF ~CircuitBreaker_gate(Breaker, now).pass THEN "open"
  ELSE "fetch"

\* useWeatherData.fetchWeather(city) up to its first await that suspends,
\* with WeatherApiService.fetchWeather up to the raw fetch of attempt 0
HookFetchWeather(c) ==
  \E city \in CityInputs :
    LET path == HookPath(city)
        norm == NormalizedCity(city)
        r == LRUCache_get(Store, norm, now)
        h0 == [startPerformanceTracking(Hook, now) EXCEPT !.loading = TRUE,
                                                          !.error = NoError]
    IN
    /\ hk[c].st = "new"
    /\ \A d \in Callers : d < c => hk[d].st # "new"
    /\ ~AbortPending
    /\ SetHook(CASE path = "invalid" ->
                       [Hook EXCEPT !.error = ErrorOf("Error: City name is required")]
                  [] path = "hit" -> HookCacheHit(h0, r.ret, now)
                  [] path = "badname" ->
                       HookFailure(h0, ErrorOf(validateCityName(Trim(city))), now)
                  [] path = "open" ->
                       HookFailure(h0, ErrorOf("NetworkError: Circuit breaker is OPEN"), now)
                  [] path = "fetch" -> h0)
    /\ IF path = "invalid"
         THEN UNCHANGED <<cache, accessOrder, accessCounter, lastOp, recency>>
         ELSE ApplyStore("get", norm, NoArgs, r, IF path = "hit" THEN norm ELSE NoKey)
    /\ hitCount' = IF path = "hit" THEN hitCount + 1 ELSE hitCount
    /\ missCount' = IF path \in {"badname", "open", "fetch"} THEN missCount + 1
                     ELSE missCount
    /\ IF path \in {"open", "fetch"}
         THEN /\ aborted' = IF abortController = 0 THEN aborted
                             ELSE aborted \cup {abortController}
              /\ abortController' = c
              /\ CallEnter(c, CircuitBreaker_gate(Breaker, now))
         ELSE UNCHANGED <<serviceVars, breakerVars, callerVars>>
    /\ IF path = "fetch"
         THEN /\ SetRetry(c, retryWithBackoff_start(MaxRetries))
              /\ ft' = [ft EXCEPT ![c] = [st |-> "pending", ctl |-> c]]
         ELSE UNCHANGED <<rt, calls, ft>>
    /\ hk' = [hk EXCEPT ![c] = [st |-> IF path = "fetch" THEN "awaiting" ELSE "done",
                                 city |-> city,
                                 outcome |-> CASE path = "invalid" -> "invalid"
                                               [] path = "hit" -> "hit"
                                               [] path = "fetch" -> "none"
                                               [] OTHER -> "error"]]
    /\ latest' = IF path \in {"invalid", "badname"} THEN latest ELSE c
    /\ lastWrite' = IF path \in {"hit", "open"}
                      THEN [c |-> c, latest |-> c] ELSE lastWrite
    /\ startedAt' = IF path = "fetch" THEN [startedAt EXCEPT ![c] = now] ELSE startedAt
    /\ UNCHANGED <<now, maxSize, fails, lastErr, timeoutVars, debounceVars,
                   cleanupInterval>>

\* the composition with the breaker around each attempt: every failed attempt
\* runs onFailure
Settle_breakerInside(c, o, jitter) ==
  LET norm == NormalizedCity(hk[c].city)
      rs == IF o.kind = "ok" THEN retryWithBackoff_onResolve(rt[c], o)
            ELSE retryWithBackoff_onReject(rt[c], o, jitter)
  IN
  /\ SetRetry(c, rs)
  /\ ft' = [ft EXCEPT ![c] = NoFetch]
  /\ fails' = IF o.kind = "ok" THEN fails ELSE [fails EXCEPT ![c] = fails[c] + 1]
  /\ lastErr' = IF o.kind = "ok" THEN lastErr ELSE [lastErr EXCEPT ![c] = o]
  /\ CASE rs.st = "returned" ->
            /\ CallSucceeds(c)
            /\ SetHook(HookSuccess(Hook, rs.result.data, now))
            /\ ApplyStore("set", norm, [val |-> rs.result.data, ttl |-> <<>>],
                          LRUCache_set(Store, norm, rs.result.data, <<>>, now), norm)
            /\ hk' = [hk EXCEPT ![c].st = "done", ![c].outcome = "ok"]
            /\ lastWrite' = [c |-> c, latest |-> latest]
       [] rs.st = "thrown" ->
            /\ CallFails(c)
            /\ SetHook(HookFailure(Hook, rs.result, now))
            /\ hk' = [hk EXCEPT ![c].st = "done",
                                 ![c].outcome = IF rs.result.kind = "AbortError"
                                                  THEN "aborted" ELSE "error"]
            /\ lastWrite' = IF rs.result.kind = "AbortError" THEN lastWrite
                             ELSE [c |-> c, latest |-> latest]
            /\ UNCHANGED <<cache, accessOrder, accessCounter, lastOp, recency>>
       [] OTHER ->
            /\ SetBreaker(CircuitBreaker_onFailure(Breaker, now))
            /\ UNCHANGED <<callerVars, hookVars, hk, lastWrite>>
            /\ UNCHANGED <<cache, accessOrder, accessCounter, lastOp, recency>>
  /\ UNCHANGED <<now, maxSize, managerVars, serviceVars, latest, startedAt, timeoutVars,
                 debounceVars>>

\* the attempt's withTimeout promise settles with outcome o: retryWithBackoff
\* returns, waits or rethrows, then the breaker's and the hook's continuations run
Settle(c, o, jitter) ==
  LET norm == NormalizedCity(hk[c].city)
      rs == IF o.kind = "ok" THEN retryWithBackoff_onResolve(rt[c], o)
            ELSE retryWithBackoff_onReject(rt[c], o, jitter)
  IN
  /\ SetRetry(c, rs)
  /\ ft' = [ft EXCEPT ![c] = NoFetch]
  /\ fails' = IF o.kind = "ok" THEN fails ELSE [fails EXCEPT ![c] = fails[c] + 1]
  /\ lastErr' = IF o.kind = "ok" THEN lastErr ELSE [lastErr EXCEPT ![c] = o]
  /\ CASE rs.st = "returned" ->
            /\ CallSucceeds(c)
            /\ SetHook(HookSuccess(Hook, rs.result.data, now))
            /\ ApplyStore("set", norm, [val |-> rs.result.data, ttl |-> <<>>],
                          LRUCache_set(Store, norm, rs.result.data, <<>>, now), norm)
            /\ hk' = [hk EXCEPT ![c].st = "done", ![c].outcome = "ok"]
            /\ lastWrite' = [c |-> c, latest |-> latest]
       [] rs.st = "thrown" ->
            /\ CallFails(c)
            /\ SetHook(HookFailure(Hook, rs.result, now))
            /\ hk' = [hk EXCEPT ![c].st = "done",
                                 ![c].outcome = IF rs.result.kind = "AbortError"
                                                  THEN "aborted" ELSE "error"]
            /\ lastWrite' = IF rs.result.kind = "AbortError" THEN lastWrite
                             ELSE [c |-> c, latest |-> latest]
            /\ UNCHANGED <<cache, accessOrder, accessCounter, lastOp, recency>>
       [] OTHER ->
            /\ UNCHANGED <<breakerVars, callerVars, hookVars, hk, lastWrite>>
            /\ UNCHANGED <<cache, accessOrder, accessCounter, lastOp, recency>>
  /\ UNCHANGED <<now, maxSize, managerVars, serviceVars, latest, startedAt, timeoutVars,
                 debounceVars>>

Attempting(c) ==
  /\ hk[c].st = "awaiting"
  /\ rt[c].st = "calling"
  /\ ft[c].st = "pending"

\* the raw fetch resolves with a valid response
FetchResolves(c) ==
  /\ Attempting(c)
  /\ ~AbortPending
  /\ Settle(c, [kind |-> "ok", attempt |-> rt[c].attempt,
                 data |-> WeatherOf(Trim(hk[c].city))], 0)

\* the raw fetch fails, or the response is not ok
FetchRejects(c) ==
  \E kind \in FetchErrors \ {"AbortError"}, jitter \in {0} :
    /\ Attempting(c)
    /\ ~AbortPending
    /\ Settle(c, [kind |-> kind, attempt |-> rt[c].attempt, data |-> ""], jitter)

\* the signal the raw fetch was started with was aborted
FetchAborts(c) ==
  \E jitter \in {0} :
    /\ Attempting(c)
    /\ ft[c].ctl \in aborted
    /\ Settle(c, [kind |-> "AbortError", attempt |-> rt[c].attempt, data |-> ""], jitter)

\* the timer of withTimeout fires first
TimeoutFires(c) ==
  \E jitter \in {0} :
    /\ Attempting(c)
    /\ ~AbortPending
    /\ Settle(c, [kind |-> RequestTimeout, attempt |-> rt[c].attempt,
                   data |-> ""], jitter)

\* the backoff wait is over: the next attempt's raw fetch starts, with the
\* signal of the service's current abortController
BackoffEnds(c) ==
  /\ hk[c].st = "awaiting"
  /\ rt[c].st = "waiting"
  /\ ~AbortPending
  /\ SetRetry(c, retryWithBackoff_afterWait(rt[c]))
  /\ ft' = [ft EXCEPT ![c] = [st |-> "pending", ctl |-> abortController]]
  /\ UNCHANGED <<now, storeVars, breakerVars, callerVars, fails, lastErr, hookVars,
                 managerVars, serviceVars, hk, latest, lastWrite, startedAt,
                 timeoutVars, debounceVars>>

Tick ==
  /\ now < MaxTime
  /\ ~AbortPending
  /\ now' = now + 1
  /\ UNCHANGED <<storeVars, breakerVars, callerVars, retryVars, orchVars, timeoutVars,
                 debounceVars>>

Next ==
  \/ \E c \in Callers : HookFetchWeather(c)
  \/ \E c \in Callers : FetchResolves(c)
  \/ \E c \in Callers : FetchRejects(c)
  \/ \E c \in Callers : FetchAborts(c)
  \/ \E c \in Callers : TimeoutFires(c)
  \/ \E c \in Callers : BackoffEnds(c)
  \/ Tick

Spec == Init /\ [][Next]_vars

-----------------------------------------------------------------------------
(* DebounceSpec: one useDebounce with trailing = true, mounted with the      *)
(* input "a", under every sequence of changes of the input, cancel calls,    *)
(* timers firing when due, and clock ticks of 100 ms                         *)

\* the values of the input
DebounceInputs == {"a", "b", "c"}
\* the input changes up to MaxChanges times
MaxChanges == 2
\* the clock runs from DebounceEpoch to DebounceEpoch + MaxDebounceTime
MaxDebounceTime == 14

DebounceInit ==
  /\ now = DebounceEpoch
  /\ maxSize = 0
  /\ LRUCacheInit
  /\ CircuitBreakerInit
  /\ RetryIdle
  /\ HookIdle
  /\ TimeoutIdle
  /\ \E leading \in BOOLEAN, maxWait \in {0, SearchMaxWait} :
       db = useDebounce_mount("a", leading, maxWait, now)

\* a render with another input: the effect runs again
DebounceChange ==
  \E value \in DebounceInputs \ {db.value} :
    /\ db.changes < MaxChanges
    /\ db' = [useDebounce_effect(db, value, now) EXCEPT !.changes = db.changes + 1]
    /\ UNCHANGED <<now, notDebounce>>

DebounceTimeoutFires ==
  /\ db.timeout.live
  /\ now >= db.timeout.due
  /\ db' = useDebounce_onTimeout(db, now)
  /\ UNCHANGED <<now, notDebounce>>

DebounceMaxTimeoutFires ==
  \E m \in db.maxTimers :
    /\ now >= m.due
    /\ db' = useDebounce_onMaxTimeout(db, m, now)
    /\ UNCHANGED <<now, notDebounce>>

DebounceCancel ==
  /\ db' = useDebounce_cancel(db)
  /\ UNCHANGED <<now, notDebounce>>

\* 100 ms pass; a timer that is due fires before they do
DebounceTick ==
  /\ now < DebounceEpoch + MaxDebounceTime
  /\ ~(db.timeout.live /\ now >= db.timeout.due)
  /\ \A m \in db.maxTimers : now < m.due
  /\ now' = now + 1
  /\ UNCHANGED <<db, notDebounce>>

DebounceNext ==
  \/ DebounceChange
  \/ DebounceTimeoutFires
  \/ DebounceMaxTimeoutFires
  \/ DebounceCancel
  \/ DebounceTick

DebounceSpec == DebounceInit /\ [][DebounceNext]_vars

-----------------------------------------------------------------------------
(* TrackerSpec: the hook and the service as in Spec, taken up after         *)
(* LatencyWindow - 1 or LatencyWindow earlier calls have been tracked and    *)
(* counted, their entries gone from the Store and the breaker closed         *)

\* the response times of n earlier calls, oldest first: 1, 2, 0, 1, 2, 0, ...
EarlierTimes(n) == [i \in 1..n |-> i % (MaxTime + 1)]

TrackerInit ==
  /\ now = 0
  /\ maxSize = MAX_CACHE_SIZE
  /\ LRUCacheInit
  /\ CircuitBreakerInit
  /\ RetryIdle
  /\ TimeoutIdle
  /\ DebounceIdle
  /\ data = Null
  /\ loading = FALSE
  /\ error = NoError
  /\ tracker = NoTracker
  /\ \E n \in {LatencyWindow - 1, LatencyWindow} :
       /\ responseTimes = EarlierTimes(n)
       /\ requestCount = n
  /\ hitCount = 0
  /\ missCount = 0
  /\ cleanupInterval = "armed"
  /\ abortController = 0
  /\ aborted = {}
  /\ hk = [c \in Callers |-> [st |-> "new", city |-> <<>>, outcome |-> "none"]]
  /\ ft = [c \in Callers |-> NoFetch]
  /\ latest = 0
  /\ lastWrite = [c |-> 0, latest |-> 0]
  /\ startedAt = [c \in Callers |-> 0]

TrackerSpec == TrackerInit /\ [][Next]_vars

-----------------------------------------------------------------------------
(* Properties of the Store (StoreSpec) *)

\* the step is the call `op` on the Store (a tick of the clock leaves lastOp as it is)
IsCall(op) == now' = now /\ lastOp'.op = op

\* C2: for every maxSize >= 1 and every sequence of set, get, has, delete,
\* cleanup and clear calls, the Store never holds more than maxSize entries
\* once a call has completed.
C2_SizeWithinMaxSize == maxSize >= 1 => Len(cache) <= maxSize

\* a set has just put a new key into a Store that was full, at capacity 2
C2_Witness ==
  /\ maxSize = 2
  /\ lastOp.op = "set"
  /\ ~lastOp.found
  /\ lastOp.removed # {}
  /\ Len(cache) = maxSize

\* C3: when set inserts a key that is not held while the Store holds maxSize
\* (>= 1) entries, exactly one entry is removed, the one whose last touch (a
\* get that returned a value, or a set) is the oldest, and every other entry
\* stays as it was.
C3_EvictsLeastRecentlyTouched ==
  [][(/\ IsCall("set")
      /\ maxSize >= 1
      /\ ~MapHas(cache, lastOp'.key)
      /\ Len(cache) >= maxSize)
     => /\ recency # <<>>
        /\ MapKeys(cache') = (MapKeys(cache) \ {Head(recency)}) \cup {lastOp'.key}
        /\ Cardinality(MapKeys(cache) \ MapKeys(cache')) = 1
        /\ \A k \in MapKeys(cache) \ {Head(recency)} :
              MapGet(cache', k) = MapGet(cache, k)]_vars

\* maxSize 2: a was inserted before b, a get touched a, then the set of c evicted b
C3_Witness ==
  /\ maxSize = 2
  /\ lastOp.op = "set"
  /\ lastOp.key = <<"c">>
  /\ lastOp.removed = {<<"b">>}
  /\ Len(cache) = 2
  /\ cache[1].k = <<"a">>
  /\ cache[2].k = <<"c">>

\* C4: get(key) on an entry whose expiresAt is earlier than the current time
\* returns nothing and removes the entry; and a key the Store does not hold
\* stays absent for has and get until it is set again.
C4_ExpiredNeverReturned ==
  [][/\ (/\ IsCall("get")
         /\ MapHas(cache, lastOp'.key)
         /\ now > MapGet(cache, lastOp'.key).expiresAt)
        => /\ lastOp'.ret = Undefined
           /\ ~MapHas(cache', lastOp'.key)
     /\ \A k \in Keys :
          (/\ ~MapHas(cache, k)
           /\ ~(IsCall("set") /\ lastOp'.key = k))
          => /\ ~MapHas(cache', k)
             /\ LRUCache_get(Store, k, now).ret' = Undefined
             /\ LRUCache_has(Store, k, now).ret' = FALSE]_vars

\* a get has just found its key expired: it returned nothing and the key is gone
C4_Witness ==
  /\ lastOp.op = "get"
  /\ lastOp.found
  /\ lastOp.ret = Undefined
  /\ lastOp.removed = {lastOp.key}
  /\ ~MapHas(cache, lastOp.key)

\* C17: set(key, v) followed by get(key) before the TTL expires, with no
\* other call on the Store in between, returns exactly v. The TTL is the ttl
\* argument of the set, or the default when it is omitted.
C17_SetGetRoundTrip ==
  [][(/\ IsCall("get")
      /\ lastOp.op = "set"
      /\ lastOp'.key = lastOp.key
      /\ now <= lastOp.at + (IF lastOp.ttl = <<>> THEN DefaultTTL ELSE lastOp.ttl[1]))
     => lastOp'.ret = lastOp.val]_vars

\* "a" was set to v1 and then to v2 at time 0; the get at time 1 returned v2
C17_Witness ==
  /\ lastOp.op = "get"
  /\ lastOp.key = <<"a">>
  /\ lastOp.ret = "v2"
  /\ now = 1
  /\ accessCounter = 3
  /\ Len(cache) = 1
  /\ cache[1].v.timestamp = 0

\* C22: with maxSize = 0, set is a no-op: after any set call the Store
\* holds no entry, and a following get of that key returns nothing.
C22_ZeroCapacityHoldsNothing ==
  [][maxSize = 0
     => /\ IsCall("set") => Len(cache') = 0
        /\ (IsCall("get") /\ lastOp.op = "set" /\ lastOp'.key = lastOp.key)
             => lastOp'.ret = Undefined]_vars

\* C23: set(key, v, ttl) with ttl = 0 or ttl < 0 creates an entry that is
\* already expired at the next read: the next get(key) returns nothing and
\* the next has(key) returns false, however soon it happens.
C23_NonPositiveTTLExpired ==
  [][(/\ now' = now
      /\ lastOp.op = "set"
      /\ lastOp.ttl # <<>>
      /\ lastOp.ttl[1] <= 0
      /\ lastOp'.key = lastOp.key)
     => /\ lastOp'.op = "get" => lastOp'.ret = Undefined
        /\ lastOp'.op = "has" => lastOp'.ret = FALSE]_vars

\* C24: has(key) on an unexpired key returns true and changes neither that
\* key's recency rank nor the logical clock nor any entry, so the key that
\* would be evicted as least recently used is the same after the call as
\* before it.
C24_HasIsPeek ==
  [][(/\ IsCall("has")
      /\ MapHas(cache, lastOp'.key)
      /\ now <= MapGet(cache, lastOp'.key).expiresAt)
     => /\ lastOp'.ret = TRUE
        /\ accessCounter' = accessCounter
        /\ accessOrder' = accessOrder
        /\ cache' = cache
        /\ LRUCache_evictLRU(Store)' = LRUCache_evictLRU(Store)]_vars

\* maxSize 2: has has just found the key that is next to be evicted, although
\* the other key was inserted later and never touched again
C24_Witness ==
  /\ maxSize = 2
  /\ lastOp.op = "has"
  /\ lastOp.ret = TRUE
  /\ Len(cache) = 2
  /\ lastOp.key = cache[1].k
  /\ LruKey(accessOrder) = lastOp.key
  /\ recency[1] = lastOp.key

\* C25: set on a key that is already present replaces its entry (new value,
\* new creation time, expiresAt = now + ttl, the default ttl when it is
\* omitted) and makes the key the most recently used one, without evicting
\* or changing any other entry, also when the Store is at capacity.
C25_ResetReplaces ==
  [][(IsCall("set") /\ MapHas(cache, lastOp'.key))
     => LET key == lastOp'.key
            ttl == IF lastOp'.ttl = <<>> THEN DefaultTTL ELSE lastOp'.ttl[1]
        IN /\ MapHas(cache', key)
           /\ MapGet(cache', key) = [data |-> lastOp'.val, timestamp |-> now,
                                     expiresAt |-> now + ttl]
           /\ MapKeys(cache') = MapKeys(cache)
           /\ \A k \in MapKeys(cache) \ {key} : MapGet(cache', k) = MapGet(cache, k)
           /\ \A k \in MapKeys(cache) \ {key} :
                 /\ MapGet(accessOrder', k) = MapGet(accessOrder, k)
                 /\ MapGet(accessOrder', key) > MapGet(accessOrder', k)]_vars

-----------------------------------------------------------------------------
(* Properties of the CacheManager (ManagerSpec) *)

\* the rate r is h / n, and 0 when n is 0
IsRate(r, h, n) ==
  IF n = 0 THEN r = [num |-> 0, den |-> 1]
  ELSE r.den > 0 /\ r.num * n = h * r.den

\* C18: the hit rate reported by getHitRate and by getStats of the cache
\* manager equals hitCount / (hitCount + missCount), with the lookups counted
\* since the last clear (a get that returns a value is a hit, any other get
\* a miss), and 0 when no lookup happened; after 3 hits and 1 miss it is
\* exactly 0.75, never the placeholder 0.85.
C18_HitRate ==
  [][/\ lastOp'.op = "getHitRate" => IsRate(lastOp'.ret, hitCount, hitCount + missCount)
     /\ lastOp'.op = "getStats"
          => /\ IsRate(lastOp'.ret.hitRate, hitCount, hitCount + missCount)
             /\ (hitCount = 3 /\ missCount = 1)
                  => lastOp'.ret.hitRate = [num |-> 3, den |-> 4]
     /\ (now' = now /\ lastOp'.op = "get")
          => IF lastOp'.ret # Undefined
               THEN hitCount' = hitCount + 1 /\ missCount' = missCount
               ELSE hitCount' = hitCount /\ missCount' = missCount + 1
     /\ (now' = now /\ lastOp'.op = "clear") => (hitCount' = 0 /\ missCount' = 0)
     /\ (now' = now /\ lastOp'.op \notin {"get", "clear"})
          => (hitCount' = hitCount /\ missCount' = missCount)]_vars

\* getStats after 3 hits and 1 miss, on a Store that holds an entry
C18_Witness ==
  /\ lastOp.op = "getStats"
  /\ Len(cache) > 0
  /\ hitCount = 3
  /\ missCount = 1
  /\ lastOp.ret.hitRate = [num |-> 3, den |-> 4]

-----------------------------------------------------------------------------
(* Properties of the circuit breaker (BreakerSpec) *)

\* the step is a call() reaching the test of the state
IsBreakerCall == now' = now /\ bLast'.ev \in {"pass", "reject"}

\* the step is the completion of a call's fn()
IsBreakerCompletion(ev) == now' = now /\ bLast'.ev = ev /\ pc' # pc

\* C5: from Closed with failureCount 0, once failureThreshold calls in a row
\* have failed (no success in between) the breaker is Open, and a call made
\* within recoveryTimeout of the last failure is rejected at once, without
\* invoking the downstream operation.
C5_OpensAfterThresholdFailures ==
  [][/\ (IsBreakerCompletion("failure") /\ consecFail' >= FailureThreshold)
        => state' = "OPEN"
     /\ (/\ IsBreakerCall
         /\ consecFail >= FailureThreshold
         /\ now - lastFailAt <= RecoveryTimeout)
        => /\ bLast'.ev = "reject"
           /\ pc' = pc
           /\ state' = "OPEN"]_vars

\* exactly failureThreshold failures in a row, then a call was rejected
C5_Witness ==
  /\ consecFail = FailureThreshold
  /\ bLast.ev = "reject"
  /\ state = "OPEN"
  /\ \A c \in Callers : pc[c] = "idle"

\* C6: while Open, a call made with now - lastFailureTime <= recoveryTimeout
\* is rejected without invoking the downstream operation and the state stays
\* Open; a call made with now - lastFailureTime > recoveryTimeout moves the
\* breaker to Half-Open and invokes the downstream operation.
C6_OpenWindow ==
  [][(IsBreakerCall /\ state = "OPEN")
     => IF now - lastFailureTime <= RecoveryTimeout
          THEN /\ bLast'.ev = "reject"
               /\ pc' = pc
               /\ state' = "OPEN"
          ELSE /\ bLast'.ev = "pass"
               /\ state' = "HALF_OPEN"
               /\ pc'[bLast'.c] = "inflight"
               /\ pc[bLast'.c] = "idle"]_vars

\* the first call after the window has moved the breaker to Half-Open
C6_Witness ==
  /\ state = "HALF_OPEN"
  /\ bLast.ev = "pass"
  /\ bLast.from = "OPEN"
  /\ pc[bLast.c] = "inflight"
  /\ now - lastFailureTime > RecoveryTimeout

\* C7: while a Half-Open probe is in flight no other call invokes the
\* downstream operation: no call under way was let in by a breaker that was
\* already Half-Open.
C7_SingleProbe ==
  \A c \in Callers : pc[c] = "inflight" => entered[c] # "HALF_OPEN"

\* C8: when a call completes while the breaker is Half-Open, success makes
\* failureCount 0 and the state Closed; failure makes the state Open at once
\* and sets lastFailureTime to the time of that failure.
C8_HalfOpenOutcome ==
  [][/\ (IsBreakerCompletion("success") /\ state = "HALF_OPEN")
        => (failureCount' = 0 /\ state' = "CLOSED")
     /\ (IsBreakerCompletion("failure") /\ state = "HALF_OPEN")
        => (state' = "OPEN" /\ lastFailureTime' = now)]_vars

\* a probe let in by the Open breaker has failed and re-opened it
C8_Witness ==
  /\ bLast.ev = "failure"
  /\ bLast.from = "HALF_OPEN"
  /\ entered[bLast.c] = "OPEN"
  /\ state = "OPEN"
  /\ lastFailureTime = now

\* a probe let in by the Open breaker has succeeded and closed it
C8_WitnessSuccess ==
  /\ bLast.ev = "success"
  /\ bLast.from = "HALF_OPEN"
  /\ entered[bLast.c] = "OPEN"
  /\ state = "CLOSED"

-----------------------------------------------------------------------------
(* Properties of retryWithBackoff (RetrySpec) *)

\* C9: retryWithBackoff invokes fn at most maxRetries + 1 times and stops at
\* the first success: when it returns, fn failed k <= maxRetries times and
\* was invoked k + 1 times, and the result is that last invocation's value;
\* when it throws, fn was invoked exactly maxRetries + 1 times and failed
\* each time.
C9_AttemptsBounded ==
  \A c \in RetryRunners :
    /\ calls[c] <= rt[c].maxRetries + 1
    /\ rt[c].st = "returned"
         => /\ fails[c] <= rt[c].maxRetries
            /\ calls[c] = fails[c] + 1
            /\ rt[c].result.kind = "ok"
            /\ rt[c].result.attempt = fails[c]
    /\ rt[c].st = "thrown"
         => /\ calls[c] = rt[c].maxRetries + 1
            /\ fails[c] = calls[c]
    /\ rt[c].st \in {"calling", "waiting"} => calls[c] - fails[c] \in {0, 1}

\* maxRetries = 3: fn failed 3 times, and the 4th invocation succeeded
C9_Witness ==
  /\ rt[1].maxRetries = 3
  /\ rt[1].st = "returned"
  /\ fails[1] = 3
  /\ calls[1] = 4

\* maxRetries = 3: fn failed all 4 times
C9_WitnessExhausted ==
  /\ rt[1].maxRetries = 3
  /\ rt[1].st = "thrown"
  /\ calls[1] = 4

\* C10: when all maxRetries + 1 attempts fail, the error thrown to the caller
\* is the error of the last attempt: not the generic "Max retries exceeded"
\* error and not the error of an earlier attempt.
C10_LastErrorVerbatim ==
  \A c \in RetryRunners :
    rt[c].st = "thrown"
      => /\ rt[c].result = lastErr[c]
         /\ rt[c].result.attempt = rt[c].maxRetries
         /\ rt[c].result # MaxRetriesExceeded

\* all 4 attempts failed, the last with another kind of error than the first
C10_Witness ==
  /\ rt[1].maxRetries = 3
  /\ rt[1].st = "thrown"
  /\ fails[1] = 4
  /\ rt[1].result.kind = "ApiError500"
  /\ rt[1].result.attempt = 3

\* the ApiErrors fetchWeatherData throws for a status that will not change
\* by asking again: 404 'City not found', 401 'Invalid API key'
NonTransientErrors == {"ApiError404", "ApiError401"}

\* C19: an ApiError of a non-transient class (404, 401) is not retried: once
\* fn has rejected with one, retryWithBackoff has thrown, fn was invoked
\* exactly once, and no backoff wait or further attempt follows.
C19_NonTransientNotRetried ==
  \A c \in RetryRunners :
    (fails[c] >= 1 /\ lastErr[c].kind \in NonTransientErrors)
      => /\ rt[c].st = "thrown"
         /\ calls[c] = 1

\* the bounds of the jitter term, Math.random() * 1000
JitterRange == 1000

\* C29: the wait between the failed attempt i (0-based) and attempt i + 1 is
\* baseDelay * 2^i plus a jitter in [0, 1000) drawn for that wait: with
\* baseDelay 1000 the waits are in [1000, 2000), [2000, 3000), [4000, 5000).
\* There is no wait before the first attempt and none after the last failed
\* attempt.
C29_BackoffWaits ==
  [][\A c \in RetryRunners :
       /\ (rt[c].st # "waiting" /\ rt'[c].st = "waiting")
            => LET i == rt[c].attempt IN
               /\ rt[c].st = "calling"
               /\ fails'[c] = fails[c] + 1
               /\ i < rt[c].maxRetries
               /\ rt'[c].attempt = i
               /\ rt'[c].delay - BaseDelay * (2 ^ i) \in 0..(JitterRange - 1)
               /\ i = 0 => rt'[c].delay \in 1000..1999
               /\ i = 1 => rt'[c].delay \in 2000..2999
               /\ i = 2 => rt'[c].delay \in 4000..4999
       /\ rt[c].st = "waiting"
            => rt'[c].st \in {"waiting", "calling"} /\ rt'[c].attempt \in {rt[c].attempt, rt[c].attempt + 1}
       /\ rt[c].st = "idle" => rt'[c].st \in {"idle", "calling"}
       /\ (rt[c].st = "calling" /\ rt[c].attempt = rt[c].maxRetries)
            => rt'[c].st \in {"calling", "returned", "thrown"}]_vars

\* the third wait of a run with maxRetries 3, with the largest jitter
C29_Witness ==
  /\ rt[1].maxRetries = 3
  /\ rt[1].st = "waiting"
  /\ rt[1].attempt = 2
  /\ fails[1] = 3
  /\ rt[1].delay = 4999

\* after the last failed attempt the error was thrown with no wait started
C29_WitnessNoLastWait ==
  /\ rt[1].maxRetries = 3
  /\ rt[1].st = "thrown"
  /\ fails[1] = 4
  /\ rt[1].delay \in 4000..4999

-----------------------------------------------------------------------------
(* Properties of withTimeout (TimeoutSpec) *)

\* C11: withTimeout delivers exactly one outcome: that of the operation if it
\* settles before the timer fires, else the timeout failure (NetworkError,
\* code TIMEOUT). The event that comes second is ignored: it changes neither
\* the delivered outcome nor any other state, and once the operation has
\* settled first no timer is left armed.
C11_OneOutcome ==
  [][\A c \in Callers :
       \* the operation settles
       /\ (wt[c].op = "pending" /\ wt'[c].op = "settled")
            => /\ wt'[c].st = "settled"
               /\ wt'[c].timer # "armed"
               /\ IF wt[c].timer = "armed"
                    THEN wt'[c].result = wt'[c].opResult /\ wt'[c].timer = "cleared"
                    ELSE wt'[c].result = wt[c].result /\ wt[c].result = TimeoutError
       \* the timer fires
       /\ (wt[c].timer = "armed" /\ wt'[c].timer = "fired")
            => /\ wt[c].op = "pending"
               /\ wt[c].st = "pending"
               /\ wt'[c].st = "settled"
               /\ wt'[c].result = TimeoutError
       \* a delivered outcome is final, and nothing else is touched
       /\ wt[c].st = "settled" => (wt'[c].st = "settled" /\ wt'[c].result = wt[c].result)
       /\ wt'[c] # wt[c] => UNCHANGED <<now, notTimeout>>]_vars

\* the timer fired first and delivered the timeout; the operation resolved
\* afterwards and was ignored
C11_Witness ==
  \E c \in Callers :
    /\ wt[c].timer = "fired"
    /\ wt[c].op = "settled"
    /\ wt[c].opResult.kind = "ok"
    /\ wt[c].result = TimeoutError

\* the operation rejected first: its error was delivered and the timer cleared
C11_WitnessOpFirst ==
  \E c \in Callers :
    /\ wt[c].timer = "cleared"
    /\ wt[c].opResult.kind = "ApiError500"
    /\ wt[c].result = wt[c].opResult
    /\ now >= wt[c].deadline

-----------------------------------------------------------------------------
(* Properties of the composed hook and service (Spec) *)

AllSettled == \A c \in Callers : hk[c].st # "awaiting"

\* C1: latest-request-wins: once fetchWeather(k2) is issued, the value or
\* error of an earlier call fetchWeather(k1) is never written to data or
\* error (stated here for k1 # k2, the case in which the write shows), and
\* when all calls have settled after a successful latest call, data is that
\* call's.
C1_LatestRequestWins ==
  /\ lastWrite.c # lastWrite.latest
       => NormalizedCity(hk[lastWrite.c].city) = NormalizedCity(hk[lastWrite.latest].city)
  /\ (AllSettled /\ latest # 0 /\ hk[latest].outcome \in {"ok", "hit"})
       => data = WeatherOf(hk[latest].city)

\* the raw fetch of call c is active: started, not cancelled, not settled
ActiveFetch(c) == ft[c].st = "pending" /\ ft[c].ctl \notin aborted

\* C12: for each key at most one fetch attempt is active at any instant, and
\* a request invalidated by a newer one starts no further raw fetch attempt:
\* its only raw fetch is the one started with its own, now aborted, signal.
C12_OneActiveFetch ==
  /\ \A c, d \in Callers :
       (c # d /\ ActiveFetch(c) /\ ActiveFetch(d))
         => NormalizedCity(hk[c].city) # NormalizedCity(hk[d].city)
  /\ \A c \in Callers :
       (c \in aborted /\ ft[c].st = "pending") => ft[c].ctl = c

\* C13: a request that was superseded (its fetch aborted by a newer call)
\* has no observable effect afterwards: no step of its retry loop changes
\* data, loading, error or requestCount, writes the Store, or adds or
\* consumes a latency sample.
C13_SupersededIsSilent ==
  [][\A c \in Callers :
       (c \in aborted /\ rt'[c] # rt[c])
         => UNCHANGED <<data, loading, error, requestCount, cache, accessOrder,
                        accessCounter, tracker, responseTimes>>]_vars

\* the step is call c's fetchWeather(city), issued while the Store holds an
\* unexpired entry for the normalized city
IsCacheHit(c) ==
  LET norm == NormalizedCity(hk'[c].city) IN
  /\ hk[c].st = "new"
  /\ hk'[c].st # "new"
  /\ Trim(hk'[c].city) # <<>>
  /\ MapHas(cache, norm)
  /\ ~(now > MapGet(cache, norm).expiresAt)

\* C14: when fetchWeather finds an unexpired Store entry for the normalized
\* key it returns the cached value, increases hitCount by exactly one, makes
\* no raw fetch call, leaves the breaker unchanged, does not increase
\* requestCount and adds no latency sample to the latency window.
C14_CacheHitFrame ==
  [][\A c \in Callers :
       IsCacheHit(c)
         => /\ hk'[c].st = "done"
            /\ data' = MapGet(cache, NormalizedCity(hk'[c].city)).data
            /\ hitCount' = hitCount + 1
            /\ missCount' = missCount
            /\ UNCHANGED <<ft, rt, calls, breakerVars, requestCount>>
            /\ responseTimes' = responseTimes]_vars

\* the key fails validation: empty or whitespace-only (the hook), longer than
\* 100 characters or with a character outside letters, whitespace and -',.
InvalidKey(city) ==
  \/ Trim(city) = <<>>
  \/ Len(Trim(city)) > MaxCityLength
  \/ \E i \in 1..Len(Trim(city)) : Trim(city)[i] \notin CityChars

\* C15: a fetchWeather whose key fails validation fails fast with an error:
\* no raw fetch call is made, nothing is retried, and the breaker's state,
\* failureCount and lastFailureTime are unchanged.
C15_InvalidKeyFailsFast ==
  [][\A c \in Callers :
       (hk[c].st = "new" /\ hk'[c].st # "new" /\ InvalidKey(hk'[c].city))
         => /\ hk'[c].st = "done"
            /\ error' # NoError
            /\ UNCHANGED <<ft, rt, calls, failureCount, lastFailureTime, state>>]_vars

\* the service rejected "#" while the breaker was one failure from opening
C15_Witness ==
  \E c \in Callers :
    /\ hk[c].st = "done"
    /\ hk[c].city = <<"#">>
    /\ error.kind = "ValidationError: Invalid city name format"
    /\ failureCount = FailureThreshold - 1
    /\ state = "CLOSED"

\* the service rejected a name of 101 characters
C15_WitnessTooLong ==
  \E c \in Callers :
    /\ hk[c].st = "done"
    /\ hk[c].city = LongCity
    /\ error.kind = "ValidationError: City name is too long"

\* the hook rejected a name of whitespace only
C15_WitnessBlank ==
  \E c \in Callers :
    /\ hk[c].st = "done"
    /\ hk[c].city = <<" ">>
    /\ error.kind = "Error: City name is required"

\* C16 (what a settled call leaves): when a fetchWeather with a valid key
\* that was not superseded settles, loading is false and exactly one of the
\* two outcomes has happened: data is the fetched or cached value and error
\* is null, or error is set to one error.
C16_SettlesWithOneOutcome ==
  [][\A c \in Callers :
       (/\ hk[c].st \in {"new", "awaiting"}
        /\ hk'[c].st = "done"
        /\ ~InvalidKey(hk'[c].city)
        /\ c \notin aborted)
         => /\ loading' = FALSE
            /\ \/ /\ hk'[c].outcome \in {"ok", "hit"}
                  /\ data' = WeatherOf(hk'[c].city)
                  /\ error' = NoError
               \/ /\ hk'[c].outcome = "error"
                  /\ error' # NoError]_vars

\* C20: a call rejected because the breaker is Open is not retried (no
\* backoff wait and no further attempt follows it within the same
\* fetchWeather) and is not counted as a failure: failureCount and
\* lastFailureTime are the same after the rejection as before it.
C20_OpenRejectionFrame ==
  [][\A c \in Callers :
       /\ (/\ hk[c].st = "new"
           /\ hk'[c].st # "new"
           /\ ~InvalidKey(hk'[c].city)
           /\ ~IsCacheHit(c)
           /\ state = "OPEN"
           /\ now - lastFailureTime <= RecoveryTimeout)
            => /\ hk'[c].st = "done"
               /\ error'.kind = "NetworkError: Circuit breaker is OPEN"
               /\ rt'[c] = NoRetry
               /\ ft'[c] = NoFetch
               /\ UNCHANGED <<failureCount, lastFailureTime, state, calls, fails>>
       /\ hk[c].st = "done"
            => (rt'[c] = rt[c] /\ ft'[c] = ft[c] /\ calls'[c] = calls[c])]_vars

\* the first call's failure opened the breaker, and the second call was
\* rejected by it: failureCount is still the threshold
C20_Witness ==
  \E c \in Callers :
    /\ hk[c].st = "done"
    /\ bLast = [ev |-> "reject", c |-> c, from |-> "OPEN"]
    /\ \E d \in Callers : d # c /\ hk[d].outcome = "error" /\ fails[d] = MaxRetries + 1
    /\ error.kind = "NetworkError: Circuit breaker is OPEN"
    /\ rt[c] = NoRetry
    /\ failureCount = FailureThreshold
    /\ state = "OPEN"

\* C21 as stated: the guards are nested as timeout(retry(breaker(rawFetch))):
\* the breaker is consulted once per raw fetch attempt, so each failed
\* attempt increases failureCount by one, and a single timeoutMs deadline
\* bounds the whole retry sequence: a timeout ends the call.
C21_BreakerPerAttempt ==
  [][\A c \in Callers :
       (hk[c].st = "awaiting" /\ fails'[c] = fails[c] + 1)
         => /\ failureCount' = failureCount + 1
            /\ lastErr'[c].kind = RequestTimeout => hk'[c].st = "done"]_vars

\* C21 as amended: the guards are nested as breaker(retry(timeout(rawFetch))):
\* the breaker is consulted once per fetchWeather, at its start; a failed
\* attempt that is followed by a retry leaves failureCount, lastFailureTime
\* and the breaker's state as they are, and only the failure of the last
\* attempt, the call's failure, increases failureCount, by exactly one; each
\* attempt has its own deadline, so an attempt that times out before the
\* last one is followed by a backoff wait and another attempt.
C21_BreakerAroundRetry ==
  [][\A c \in Callers :
       /\ (hk[c].st = "awaiting" /\ fails'[c] = fails[c] + 1)
            => IF fails[c] < MaxRetries
                 THEN /\ rt'[c].st = "waiting"
                      /\ hk'[c].st = "awaiting"
                      /\ UNCHANGED <<failureCount, lastFailureTime, state>>
                 ELSE /\ rt'[c].st = "thrown"
                      /\ hk'[c].st = "done"
                      /\ failureCount' = failureCount + 1
                      /\ lastFailureTime' = now
       /\ (bLast' # bLast /\ bLast'.c = c /\ bLast'.ev \in {"pass", "reject"})
            => hk[c].st = "new"]_vars

\* the only call issued failed all four attempts: the breaker, at 0 failures
\* before, counts 1 and is still closed
C21_Witness ==
  \E c \in Callers :
    /\ hk[c].outcome = "error"
    /\ fails[c] = MaxRetries + 1
    /\ calls[c] = MaxRetries + 1
    /\ lastErr[c].kind = "ApiError500"
    /\ failureCount = 1
    /\ state = "CLOSED"
    /\ \A d \in Callers : d # c => hk[d].st = "new"

\* the step is the start of call c's fetchWeather for a key the Store was
\* last set for, no later than the default TTL after that set
IsFollowingResolve(c) ==
  /\ hk[c].st = "new"
  /\ hk'[c].st # "new"
  /\ lastOp.op = "set"
  /\ lastOp.key = ToLowerCase(Trim(hk'[c].city))
  /\ now <= lastOp.at + DefaultTTL

\* C26: when a network-path fetchWeather succeeds, the fetched value is
\* stored in the Store under the normalized key with expiresAt = now +
\* default TTL, requestCount increases by exactly one, and a following
\* fetchWeather of the same key within the TTL is a cache hit.
C26_SuccessIsCached ==
  [][\A c \in Callers :
       /\ (hk[c].st = "awaiting" /\ hk'[c].st = "done" /\ hk'[c].outcome = "ok")
            => LET key == ToLowerCase(Trim(hk[c].city)) IN
               /\ MapHas(cache', key)
               /\ MapGet(cache', key) = [data |-> WeatherOf(hk[c].city), timestamp |-> now,
                                         expiresAt |-> now + DefaultTTL]
               /\ data' = WeatherOf(hk[c].city)
               /\ requestCount' = requestCount + 1
       /\ IsFollowingResolve(c)
            => /\ hk'[c] = [st |-> "done", city |-> hk'[c].city, outcome |-> "hit"]
               /\ data' = lastOp.val
               /\ hitCount' = hitCount + 1
               /\ UNCHANGED <<ft, calls>>]_vars

\* the first call fetched and cached, one tick later the second call, for
\* the same key, was served from the Store
C26_Witness ==
  \E c, d \in Callers :
    /\ hk[c].outcome = "ok"
    /\ hk[d].outcome = "hit"
    /\ hk[d].city = hk[c].city
    /\ requestCount = 1
    /\ hitCount = 1
    /\ Len(cache) = 1
    /\ cache[1].v.expiresAt = cache[1].v.timestamp + DefaultTTL
    /\ now = cache[1].v.expiresAt

\* the kinds of error a fetchWeather fails with before any raw fetch
FailFastErrors ==
  {"NetworkError: Circuit breaker is OPEN", "ValidationError: City name is too long",
   "ValidationError: Invalid city name format"}

\* C27: when a network-path fetchWeather fails for a reason other than
\* cancellation, no entry of the Store is written or changed, requestCount
\* increases by exactly one, loading becomes false, the data shown before is
\* kept, and the error placed in state is the error the pipeline raised
\* (that of the last attempt, when attempts were made).
C27_FailureFrame ==
  [][\A c \in Callers :
       (hk[c].st \in {"new", "awaiting"} /\ hk'[c].st = "done" /\ hk'[c].outcome = "error")
         => /\ \A k \in MapKeys(cache') :
                  MapHas(cache, k) /\ MapGet(cache', k) = MapGet(cache, k)
            /\ requestCount' = requestCount + 1
            /\ loading' = FALSE
            /\ data' = data
            /\ IF hk[c].st = "awaiting"
                 THEN error' = lastErr'[c] /\ error'.attempt = MaxRetries
                 ELSE error'.kind \in FailFastErrors]_vars

\* the first call fetched the weather of l; the second failed all four
\* attempts, and the weather of l is still shown
C27_Witness ==
  \E c, d \in Callers :
    /\ hk[c].outcome = "ok"
    /\ hk[d].outcome = "error"
    /\ fails[d] = MaxRetries + 1
    /\ error = lastErr[d]
    /\ error.kind = "ApiError404"
    /\ data = "weather of l"
    /\ requestCount = 2
    /\ ~loading
    /\ Len(cache) = 1

\* C28: the cache key is the trimmed, lower-cased input: two calls whose
\* keys differ only in letter case or surrounding whitespace use the same
\* Store entry, so after the first one succeeded the second one (while the
\* entry with the first one's weather is in the Store and unexpired) is a
\* cache hit that adds no entry and makes no raw fetch call.
C28_KeyIsNormalized ==
  [][\A c, d \in Callers :
       (/\ hk[c].outcome = "ok"
        /\ hk[d].st = "new"
        /\ hk'[d].st # "new"
        /\ hk'[d].city # hk[c].city
        /\ ToLowerCase(Trim(hk'[d].city)) = ToLowerCase(Trim(hk[c].city))
        /\ \E k \in MapKeys(cache) :
             /\ MapGet(cache, k).data = WeatherOf(hk[c].city)
             /\ ~(now > MapGet(cache, k).expiresAt))
         => /\ MapKeys(cache') = MapKeys(cache)
            /\ hk'[d].st = "done"
            /\ hk'[d].outcome = "hit"
            /\ data' = WeatherOf(hk[c].city)
            /\ UNCHANGED <<ft, calls>>]_vars

\* "P" was fetched and cached; " p" was then served from the same entry
C28_Witness ==
  \E c, d \in Callers :
    /\ hk[c].city = <<"P">>
    /\ hk[c].outcome = "ok"
    /\ hk[d].city = <<" ", "p">>
    /\ hk[d].outcome = "hit"
    /\ calls[d] = 0
    /\ Len(cache) = 1
    /\ cache[1].k = <<"p">>
    /\ data = "weather of p"

-----------------------------------------------------------------------------
(* Properties of the latency buffer (TrackerSpec) *)

\* the step ends call c's fetchWeather on a path that tracked its time
EndsTracked(c) ==
  /\ hk[c].st # "done"
  /\ hk'[c].st = "done"
  /\ hk'[c].outcome # "invalid"
  /\ hk[c].st = "new" \/ tracker # NoTracker

\* C30: the latency buffer never holds more than 100 samples; a sample added
\* to a buffer of 100 drops the oldest one and keeps the order of the rest;
\* the average response time is the mean of the samples in the buffer, the
\* most recent 100 at most.
C30_LatencyWindow ==
  [][/\ Len(responseTimes') <= LatencyWindow
     /\ \A c \in Callers :
          EndsTracked(c)
            => LET sample == IF hk[c].st = "new" THEN 0 ELSE now - tracker
                   full == Len(responseTimes) = LatencyWindow
                   kept == IF full THEN Tail(responseTimes) ELSE responseTimes
               IN /\ responseTimes' = Append(kept, sample)
                  /\ getAverageResponseTime(responseTimes')
                       = Rate(SumOf(kept) + sample, Len(kept) + 1)
                  /\ full => Len(responseTimes') = LatencyWindow]_vars

\* two samples were added to a buffer that held 100: the two oldest are
\* gone, the third oldest is first, and the newest is last
C30_Witness ==
  /\ requestCount = LatencyWindow + 2
  /\ Len(responseTimes) = LatencyWindow
  /\ responseTimes[1] = EarlierTimes(LatencyWindow)[3]
  /\ SubSeq(responseTimes, 1, LatencyWindow - 2) = SubSeq(EarlierTimes(LatencyWindow), 3, LatencyWindow)
  /\ responseTimes[LatencyWindow - 1] = 0
  /\ responseTimes[LatencyWindow] = 2

-----------------------------------------------------------------------------
(* Properties of the CacheManager's counters and lifecycle (LifecycleSpec)  *)

\* the key has no entry in the Store, or one that is expired now
AbsentOrExpired(key) ==
  ~MapHas(cache, key) \/ now > MapGet(cache, key).expiresAt

\* C31: hitCount and missCount change only through the cache manager's get,
\* which adds exactly one to hitCount when a value is returned and exactly
\* one to missCount when the key is absent or expired; has, set, delete, the
\* sweep, getStats and destroy leave both unchanged, they never decrease
\* otherwise, and only clear() resets both to 0.
C31_CountersOnlyByGet ==
  [][/\ IsCall("get")
          => IF AbsentOrExpired(lastOp'.key)
               THEN /\ lastOp'.ret = Undefined
                    /\ hitCount' = hitCount
                    /\ missCount' = missCount + 1
               ELSE /\ lastOp'.ret = MapGet(cache, lastOp'.key).data
                    /\ hitCount' = hitCount + 1
                    /\ missCount' = missCount
     /\ IsCall("clear") => (hitCount' = 0 /\ missCount' = 0)
     /\ ~(IsCall("get") \/ IsCall("clear"))
          => (hitCount' = hitCount /\ missCount' = missCount)]_vars

\* after a hit and a miss were counted, has found the key expired and
\* removed its entry, and the counts are as they were
C31_Witness ==
  /\ lastOp.op = "has"
  /\ lastOp.ret = FALSE
  /\ lastOp.removed # {}
  /\ hitCount = 1
  /\ missCount = 1

\* C34: the background sweep runs cleanup while the cache manager is alive:
\* a run of the interval's callback happens only before destroy(), and it
\* removes exactly the entries expired by then; destroy() clears the
\* interval and empties the Store, and after it no sweep ever runs again.
C34_SweepUntilDestroy ==
  [][/\ IsCall("sweep")
          => /\ cleanupInterval = "armed"
             /\ cache' = SelectSeq(cache, LAMBDA p : now <= p.v.expiresAt)
             /\ MapKeys(accessOrder') = MapKeys(cache')
     /\ IsCall("destroy")
          => /\ cleanupInterval' = "cleared"
             /\ cache' = <<>>
             /\ accessOrder' = <<>>
     /\ cleanupInterval = "cleared"
          => /\ cleanupInterval' = "cleared"
             /\ ~IsCall("sweep")]_vars

\* the manager was destroyed while it held entries, and time went on with
\* an entry set afterwards, now expired, that no sweep removes
C34_Witness ==
  /\ cleanupInterval = "cleared"
  /\ now = MaxTime
  /\ \E k \in MapKeys(cache) : now > MapGet(cache, k).expiresAt

\* the last call was destroy, and it emptied a Store that held entries
C34_WitnessDestroy ==
  /\ lastOp.op = "destroy"
  /\ lastOp.removed # {}
  /\ cleanupInterval = "cleared"
  /\ cache = <<>>

-----------------------------------------------------------------------------
(* Further properties of getStats (ManagerSpec) and of the Store (StoreSpec) *)

\* C32: getStats reports size, oldestEntry and newestEntry over the
\* unexpired entries only, and removes from the Store every expired entry
\* it meets during the scan: after the call the Store holds no entry that
\* was expired at the time of the call.
C32_StatsCleanExpired ==
  [][IsCall("getStats")
       => LET live == {k \in MapKeys(cache) : now <= MapGet(cache, k).expiresAt}
              stamps == {MapGet(cache, k).timestamp : k \in live}
          IN /\ lastOp'.ret.size = Cardinality(live)
             /\ IF live = {}
                  THEN /\ lastOp'.ret.oldestEntry = NullStamp
                       /\ lastOp'.ret.newestEntry = NullStamp
                  ELSE /\ lastOp'.ret.oldestEntry \in stamps
                       /\ lastOp'.ret.newestEntry \in stamps
                       /\ \A x \in stamps : /\ lastOp'.ret.oldestEntry <= x
                                             /\ x <= lastOp'.ret.newestEntry
             /\ MapKeys(cache') = live]_vars

\* C33: cleanup() removes every entry that is expired at the time of the
\* call, removes no unexpired entry (and changes none), and returns the
\* number of entries it removed.
C33_CleanupRemovesExpired ==
  [][IsCall("cleanup")
       => LET dead == {k \in MapKeys(cache) : now > MapGet(cache, k).expiresAt} IN
          /\ MapKeys(cache') = MapKeys(cache) \ dead
          /\ MapKeys(accessOrder') = MapKeys(accessOrder) \ dead
          /\ \A k \in MapKeys(cache') :
                /\ MapGet(cache', k) = MapGet(cache, k)
                /\ MapGet(accessOrder', k) = MapGet(accessOrder, k)
          /\ lastOp'.ret = Cardinality(dead)
          /\ lastOp'.removed = dead
          /\ accessCounter' = accessCounter]_vars

\* a cleanup that removed one expired entry and kept one unexpired entry
C33_Witness ==
  /\ lastOp.op = "cleanup"
  /\ lastOp.ret = 1
  /\ Len(cache) = 1
  /\ now <= cache[1].v.expiresAt

\* C40: after every Store operation the keys that have a recency rank
\* (accessOrder) are the keys that have an entry (cache), no two keys share
\* a rank, every rank is at most the logical clock accessCounter, and clear
\* leaves both maps empty with the clock at 0.
C40_RanksMatchEntries ==
  /\ MapKeys(accessOrder) = MapKeys(cache)
  /\ Len(accessOrder) = Cardinality(MapKeys(accessOrder))
  /\ Len(cache) = Cardinality(MapKeys(cache))
  /\ \A i, j \in 1..Len(accessOrder) : i # j => accessOrder[i].v # accessOrder[j].v
  /\ \A i \in 1..Len(accessOrder) : accessOrder[i].v \in 1..accessCounter
  /\ lastOp.op = "clear" => (cache = <<>> /\ accessOrder = <<>> /\ accessCounter = 0)

\* two keys hold the ranks 2 and 4 of a clock at 4, after a set of a key
\* the Store held
C40_Witness ==
  /\ Len(cache) = 2
  /\ accessCounter = 4
  /\ lastOp.op = "set"
  /\ lastOp.found
  /\ {accessOrder[i].v : i \in 1..Len(accessOrder)} = {2, 4}

\* a clear of a Store that held entries
C40_WitnessClear ==
  /\ lastOp.op = "clear"
  /\ lastOp.removed # {}
  /\ accessCounter = 0

-----------------------------------------------------------------------------
(* Further properties of the circuit breaker (BreakerSpec) *)

\* C35: in every reachable state of the circuit breaker, under any
\* interleaving of concurrent calls, the state is Closed exactly when
\* failureCount < failureThreshold, and the state is Open or Half-Open only
\* when failureCount >= failureThreshold.
C35_StateMatchesCount ==
  /\ state \in {"CLOSED", "OPEN", "HALF_OPEN"}
  /\ state = "CLOSED" <=> failureCount < FailureThreshold
  /\ state \in {"OPEN", "HALF_OPEN"} => failureCount >= FailureThreshold

\* the breaker is Half-Open with a probe and an older call both in flight,
\* after a failed probe took the count past the threshold
C35_Witness ==
  /\ state = "HALF_OPEN"
  /\ failureCount = FailureThreshold + 1
  /\ \A c \in Callers : pc[c] = "inflight"

\* C36: the breaker never goes from Open directly to Closed: an Open period
\* ends only by the step to Half-Open, taken after recoveryTimeout has
\* elapsed since the last failure, also when a call that was started before
\* the breaker opened completes successfully while the breaker is Open.
C36_OpenEndsThroughHalfOpen ==
  [][(state = "OPEN" /\ state' # "OPEN")
       => /\ state' = "HALF_OPEN"
          /\ now - lastFailureTime > RecoveryTimeout]_vars

-----------------------------------------------------------------------------
(* Further properties of the hook and the service (Spec) *)

\* the step is the end of an attempt of call c whose raw fetch was aborted
AttemptAborted(c) ==
  /\ fails'[c] = fails[c] + 1
  /\ lastErr'[c].kind = "AbortError"

\* C37: cancelling a request (the abort caused by a newer fetchWeather call)
\* is never counted as a failure by the circuit breaker: an aborted attempt
\* leaves failureCount, lastFailureTime and the breaker's state unchanged,
\* and cannot open the breaker.
C37_AbortIsNoFailure ==
  [][\A c \in Callers :
       AttemptAborted(c) => UNCHANGED <<failureCount, lastFailureTime, state>>]_vars

\* C38: every fetchWeather that completes on the network path (success, or
\* a failure other than a cancellation) adds exactly one latency sample,
\* measured from the start of that same call, also when other calls start
\* or finish between its start and its completion.
C38_OneSamplePerCall ==
  [][\A c \in Callers :
       (hk[c].st = "awaiting" /\ hk'[c].st = "done" /\ hk'[c].outcome \in {"ok", "error"})
         => responseTimes' = SliceLast(Append(responseTimes, now - startedAt[c]),
                                       LatencyWindow)]_vars

-----------------------------------------------------------------------------
(* Properties of useDebounce (DebounceSpec) *)

\* C39 (the part about never going back): with trailing = true and leading
\* left false, and cancel never called, once the trailing timer has run and
\* debouncedValue equals the latest input, debouncedValue does not change to
\* another value while the input stays the same.
C39_NeverBackToOlderInput ==
  [][(/\ ~db.leading
      /\ ~db'.cancelled
      /\ ~db.timeout.live
      /\ db.debouncedValue = db.value
      /\ db'.value = db.value)
       => db'.debouncedValue = db.value]_vars

=============================================================================
